---- MODULE Spec2Model ----
(***************************************************************************)
(* Chat assistant with session memory: token counting, the Memory Manager  *)
(* (Flow 1), the Query Pipeline (Flow 2), the Chat Generator (Flow 3), the *)
(* JSON persistence utility and the interactive application.               *)
(*                                                                         *)
(* Conventions.  A text is a sequence of characters (one-character         *)
(* strings).  An optional value is a sequence of length 0 (absent, None)   *)
(* or 1 (present).  A chat message is a function whose domain is the set   *)
(* of keys the dict holds.                                                 *)
(***************************************************************************)
EXTENDS Integers, Sequences, FiniteSets, TLC

VARIABLES
    \* --- token counting / threshold harness (tokenizer.py, memory.py)
    tk_messages,        \* the message list handed to the functions
    threshold,          \* MemoryManager.threshold
    num_tokens,         \* last result of count_messages_tokens
    tk_should,          \* last result of should_summarize
    tk_pc,              \* "init" | "counted" | "checked"
    tk_pct,             \* the last usage fraction computed, with its inputs
    \* --- consolidation harness (memory.py: summarize_messages)
    mm_previous,        \* previous_summary handed to the next call (optional)
    mm_fed,             \* the buffers handed to the successful calls, in order
    mm_returned,        \* the summaries the successful calls returned, in order
    mm_first,           \* previous_summary of the first call (optional)
    mm_status,          \* "idle" | "ok" | "error": outcome of the last call
    mm_calls,           \* the successful calls: arguments, request and result
    \* --- Chat Generator harness (llm.py)
    gen_memory,         \* session_memory argument (optional)
    gen_context,        \* context_messages argument (the caller's list)
    gen_query,          \* user_query argument
    gen_prompt,         \* last result of _build_system_prompt (optional)
    gen_payload,        \* messages of the last chat.completions.create call
    gen_pc,             \* "init" | "built" | "sent" | "error"
    \* --- persistence harness (storage.py)
    fs_file,            \* the file at the path: absent, or its bytes
    st_saved,           \* the values passed to save_json so far, in order
    st_intact,          \* the file is as the last save_json wrote it
    st_loaded,          \* result of the last load_json: [raised, data]
    st_pc,              \* "idle" | "saved" | "loaded"
    \* --- the interactive application (app/ui.py): st.session_state
    messages,           \* session_state.messages
    session_summary,    \* session_state.session_summary (optional)
    last_summary_index, \* session_state.last_summary_index
    pending_options,    \* session_state.pending_options
    test_prompt,        \* session_state.test_prompt (optional)
    ui_inited,          \* the session_state keys exist
    ui_pc,              \* "start" | "idle" | "rerun" | "off"
    ui_last,            \* what the last script run did
    summarized,         \* the buffers consolidated since the last reset or scenario load
    \* --- Query Pipeline harness (pipeline.py)
    pq_self,            \* the QueryPipeline object's attributes
    pq_recent,          \* recent_messages argument (the caller's list)
    pq_memory,          \* session_memory argument (the caller's object, optional)
    pq_prev,            \* the call before the last one (optional)
    pq_last,            \* the last call: query, LLM outcome, result (optional)
    pq_calls,           \* number of calls made
    \* --- log replay (app/cli.py: run_log)
    log_messages,       \* the messages of the log file
    log_i,              \* number of messages processed
    log_memory,         \* session_memory (optional)
    processed_messages, \* processed_messages
    log_last,           \* what the last loop iteration did
    log_pc              \* "off" | "running" | "done" | "failed"

tkVars == <<tk_messages, threshold, num_tokens, tk_should, tk_pc, tk_pct>>
mmVars == <<mm_previous, mm_fed, mm_returned, mm_first, mm_status, mm_calls>>
genVars == <<gen_memory, gen_context, gen_query, gen_prompt, gen_payload, gen_pc>>
stVars == <<fs_file, st_saved, st_intact, st_loaded, st_pc>>
uiVars == <<messages, session_summary, last_summary_index, pending_options,
            test_prompt, ui_inited, ui_pc, ui_last, summarized>>
tkRest == <<tk_messages, num_tokens, tk_should, tk_pc, tk_pct>>
stRest == <<st_saved, st_intact, st_loaded, st_pc>>
pqVars == <<pq_self, pq_recent, pq_memory, pq_prev, pq_last, pq_calls>>
logVars == <<log_messages, log_i, log_memory, processed_messages, log_pc, log_last>>
vars == <<tkVars, mmVars, genVars, stVars, uiVars, pqVars, logVars>>

----------------------------------------------------------------------------
(* Generic helpers *)

None == <<>>
Some(v) == <<v>>

RECURSIVE SumSeq(_)
SumSeq(s) == IF s = <<>> THEN 0 ELSE Head(s) + SumSeq(Tail(s))

Max(a, b) == IF a >= b THEN a ELSE b

\* Python s[-n:]
LastN(s, n) == IF Len(s) <= n THEN s ELSE SubSeq(s, Len(s) - n + 1, Len(s))

\* Python s[i:]
From(s, i) == IF i >= Len(s) THEN <<>> ELSE SubSeq(s, i + 1, Len(s))

\* All sequences over S of length at most n
SeqsUpTo(S, n) == UNION {[1..k -> S] : k \in 0..n}

----------------------------------------------------------------------------
(* Bounds of the model *)

MaxTokMsgs == 2         \* longest message list given to the token functions
MaxThreshold == 14      \* largest threshold tried in the threshold harness
MaxBuffer == 2          \* longest buffer handed to one consolidation
MaxConsolidations == 3  \* consolidations in one chain
MaxFirstEnd == 2        \* largest end_index of a summary that predates the chain
MaxContext == 2         \* longest context list given to the Chat Generator harness
MaxSaves == 2           \* save_json calls in one run of the persistence harness
MaxMessages == 4        \* longest history the interactive application builds
MaxCalls == 3           \* analyze_query calls in one run of the pipeline harness
ParagraphTokens == 50   \* tokens of one paragraph of prose

Paragraph == "<paragraph>"

----------------------------------------------------------------------------
(* Token counting: src/utils/tokenizer.py *)

\* Byte-pair merges of the encoding: a pair of characters that the encoder
\* emits as a single token.
Merges == {<<"h", "i">>, <<"a", "l">>}

\* encoding.encode(text): greedy left-to-right application of the merges.
\* A paragraph character stands for a run of prose that the encoder turns into
\* ParagraphTokens tokens.
RECURSIVE encode(_)
encode(text) ==
    IF text = <<>> THEN <<>>
    ELSE IF text[1] = Paragraph
         THEN [i \in 1..ParagraphTokens |-> <<Paragraph, i>>] \o encode(Tail(text))
    ELSE IF Len(text) >= 2 /\ <<text[1], text[2]>> \in Merges
         THEN <<<<text[1], text[2]>>>> \o encode(SubSeq(text, 3, Len(text)))
         ELSE <<<<text[1]>>>> \o encode(Tail(text))

\* ChatML overhead constants
tokens_per_message == 3
tokens_per_name == 1
reply_priming == 3

\* isinstance(value, str): texts are sequences of one-character strings
IsStr(value) == \A i \in DOMAIN value : value[i] \in STRING

\* The inner loop body for one (key, value) item of a message.
ItemTokensDebugCounted(key, value) ==
    IF key \in {"content", "name"} /\ IsStr(value)
    THEN Len(encode(value)) + (IF key = "name" THEN tokens_per_name ELSE 0)
    ELSE IF key = "debug_info" THEN 1 ELSE 0

ItemTokens(key, value) ==
    IF key \in {"content", "name"} /\ IsStr(value)
    THEN Len(encode(value)) + (IF key = "name" THEN tokens_per_name ELSE 0)
    ELSE 0

\* for key, value in message.items(): ...
RECURSIVE MessageItemsTokens(_, _)
MessageItemsTokens(message, keys) ==
    IF keys = {} THEN 0
    ELSE LET k == CHOOSE k \in keys : TRUE
         IN ItemTokens(k, message[k]) + MessageItemsTokens(message, keys \ {k})

\* for message in messages: num_tokens += tokens_per_message; ...
RECURSIVE MessagesLoop(_, _)
MessagesLoop(msgs, acc) ==
    IF msgs = <<>> THEN acc
    ELSE MessagesLoop(Tail(msgs),
                      acc + tokens_per_message
                          + MessageItemsTokens(Head(msgs), DOMAIN Head(msgs)))

count_messages_tokens(msgs) == MessagesLoop(msgs, 0) + reply_priming

\* count_tokens(text)
count_tokens(text) == IF text = <<>> THEN 0 ELSE Len(encode(text))

----------------------------------------------------------------------------
(* Memory Manager threshold check: src/core/memory.py *)

\* settings.MEMORY_THRESHOLD_TOKENS
MEMORY_THRESHOLD_TOKENS == 200

should_summarize_nonstrict(msgs, thr) == count_messages_tokens(msgs) >= thr

should_summarize(msgs, thr) == count_messages_tokens(msgs) > thr


----------------------------------------------------------------------------
(* Long-term memory records: UserProfile, SessionSummaryContent,           *)
(* MessageRange, SessionSummary                                            *)

UserProfile(prefs, constraints) == [prefs |-> prefs, constraints |-> constraints]

MessageRange(start_index, end_index) ==
    [start_index |-> start_index, end_index |-> end_index]

\* SessionSummary(**content, message_range_summarized=range)
SessionSummary(content, range) ==
    [user_profile |-> content.user_profile,
     key_facts |-> content.key_facts,
     decisions |-> content.decisions,
     open_questions |-> content.open_questions,
     todos |-> content.todos,
     message_range_summarized |-> range]

\* The summary the fast path creates when none exists
EmptySummary ==
    SessionSummary([user_profile |-> UserProfile(<<>>, <<>>), key_facts |-> <<>>,
                    decisions |-> <<>>, open_questions |-> <<>>, todos |-> <<>>],
                   MessageRange(0, 0))

\* Texts the language model and the user produce
T_NoJava == <<"n", "o", "J">>
T_Concise == <<"c">>
T_Python == <<"P", "y">>
T_Huy == <<"H", "u", "y">>
T_Viet == <<"V", "i", "U+1EC7", "t">>
T_Quote == <<"\"", "q", "\\">>

\* Structured outputs of the consolidation call (SessionSummaryContent)
AiContents ==
    {[user_profile |-> UserProfile(<<>>, <<>>), key_facts |-> <<>>,
      decisions |-> <<>>, open_questions |-> <<>>, todos |-> <<>>],
     [user_profile |-> UserProfile(<<T_Python>>, <<T_NoJava>>), key_facts |-> <<T_Huy>>,
      decisions |-> <<>>, open_questions |-> <<>>, todos |-> <<T_Concise>>]}

----------------------------------------------------------------------------
(* Memory Manager consolidation: src/core/memory.py *)

\* The metadata step with the start index taken from the previous start
summarize_range_restart(msgs, previous_summary) ==
    LET start_index == IF previous_summary # None
                       THEN previous_summary[1].message_range_summarized.start_index
                       ELSE 0
    IN MessageRange(start_index, start_index + Len(msgs))

\* 4) Calculate metadata
summarize_range(msgs, previous_summary) ==
    LET start_index == IF previous_summary # None
                       THEN previous_summary[1].message_range_summarized.end_index
                       ELSE 0
        end_index == start_index + Len(msgs)
    IN MessageRange(start_index, end_index)

\* summarize_messages, given the content the model returned (ai_content)
summarize_messages(msgs, previous_summary, ai_content) ==
    SessionSummary(ai_content, summarize_range(msgs, previous_summary))

\* 1), 2) the user message of the request: the previous user_profile as JSON,
\* or the text "None", and the buffer as JSON
summarize_request(msgs, previous_summary) ==
    [current_profile_context |->
         IF previous_summary # None
         THEN [model_dump_json |-> previous_summary[1].user_profile]
         ELSE [text |-> "None"],
     recent_messages |-> msgs]

\* The call merging the previous summary into the request and the result
summarize_call_merging(msgs, previous_summary, ai_content) ==
    LET prev_facts == IF previous_summary # None THEN previous_summary[1].key_facts
                      ELSE <<>>
        new == summarize_messages(msgs, previous_summary, ai_content)
    IN [request |-> summarize_request(msgs, previous_summary)
                    @@ [key_facts |-> prev_facts],
        previous_summary |-> previous_summary,
        returned |-> [new EXCEPT !.key_facts = prev_facts \o @]]

\* One call of summarize_messages: the request it sends, the previous summary
\* as the call leaves it, and the summary it returns
summarize_call(msgs, previous_summary, ai_content) ==
    [request |-> summarize_request(msgs, previous_summary),
     previous_summary |-> previous_summary,
     returned |-> summarize_messages(msgs, previous_summary, ai_content)]

----------------------------------------------------------------------------
(* Harness: a chain of consolidations fed sequential buffers *)

\* A buffer of k messages: user and assistant turns alternate
MmBuffer(k) ==
    [i \in 1..k |-> IF i % 2 = 1 THEN [role |-> "user", content |-> <<"h", "i">>]
                                 ELSE [role |-> "assistant", content |-> <<"h", "a", "t">>]]

MmInit ==
    /\ mm_first \in {None} \cup
                    {Some(SessionSummary(c, MessageRange(s, e))) :
                        c \in AiContents, s \in 0..MaxFirstEnd, e \in 0..MaxFirstEnd}
    /\ (mm_first # None =>
          mm_first[1].message_range_summarized.start_index
            <= mm_first[1].message_range_summarized.end_index)
    /\ mm_previous = mm_first
    /\ mm_fed = <<>>
    /\ mm_returned = <<>>
    /\ mm_status = "idle"
    /\ mm_calls = <<>>

MmIdle ==
    /\ mm_first = None
    /\ mm_previous = None
    /\ mm_fed = <<>>
    /\ mm_returned = <<>>
    /\ mm_status = "off"
    /\ mm_calls = <<>>

\* The call succeeds; the caller keeps the result as the next previous_summary.
Consolidate ==
    /\ mm_status # "off"
    /\ Len(mm_returned) < MaxConsolidations
    /\ \E k \in 0..MaxBuffer, ai_content \in AiContents :
         LET buffer == MmBuffer(k)
             call == summarize_call(buffer, mm_previous, ai_content)
             new_summary == call.returned
         IN /\ mm_returned' = Append(mm_returned, new_summary)
            /\ mm_fed' = Append(mm_fed, buffer)
            /\ mm_previous' = Some(new_summary)
            /\ mm_calls' = Append(mm_calls,
                                  [before |-> mm_previous, ai_content |-> ai_content,
                                   buffer |-> buffer, call |-> call])
    /\ mm_status' = "ok"
    /\ UNCHANGED mm_first
    /\ UNCHANGED <<tkVars, genVars, stVars, uiVars, pqVars, logVars>>

\* The model call raises: nothing is returned, the caller keeps what it had.
ConsolidateFails ==
    /\ mm_status \in {"idle", "ok"}
    /\ Len(mm_returned) < MaxConsolidations
    /\ mm_status' = "error"
    /\ UNCHANGED <<mm_previous, mm_fed, mm_returned, mm_first, mm_calls>>
    /\ UNCHANGED <<tkVars, genVars, stVars, uiVars, pqVars, logVars>>

MmNext ==
    \/ Consolidate
    \/ ConsolidateFails

----------------------------------------------------------------------------
(* Chat Generator: src/core/llm.py *)

\* Concatenation of ss[lo..hi], by halves
RECURSIVE FlattenRange(_, _, _)
FlattenRange(ss, lo, hi) ==
    IF lo > hi THEN <<>>
    ELSE IF lo = hi THEN ss[lo]
    ELSE LET mid == (lo + hi) \div 2
         IN FlattenRange(ss, lo, mid) \o FlattenRange(ss, mid + 1, hi)

Flatten(ss) == FlattenRange(ss, 1, Len(ss))

\* sep.join(parts)
RECURSIVE Join(_, _)
Join(parts, sep) ==
    IF parts = <<>> THEN <<>>
    ELSE IF Len(parts) = 1 THEN parts[1]
    ELSE parts[1] \o sep \o Join(Tail(parts), sep)

NL == <<"\n">>

base_prompt ==
    <<"You are a helpful and intelligent AI Assistant.", "\n",
      "Answer the user's questions clearly and accurately.", "\n">>

ProfileHeader == <<"\n", "=== USER PROFILE (Remember this) ===", "\n">>
ConstraintsHeader == <<"CONSTRAINTS (Must Follow):", "\n">>
PreferencesHeader == <<"PREFERENCES:", "\n">>
KeyFactsHeader == <<"\n", "=== KEY FACTS ===", "\n">>

\* f"- {item}\n" for each item
BulletLines(items) == Flatten([i \in 1..Len(items) |-> <<"- ">> \o items[i] \o NL])

\* A model object is truthy whatever its fields hold
ObjectTruthy(obj) == TRUE

\* The profile block, as built by "if session_memory.user_profile:"
profile_text(user_profile) ==
    ProfileHeader
    \o (IF user_profile.constraints # <<>>
        THEN ConstraintsHeader \o BulletLines(user_profile.constraints) ELSE <<>>)
    \o (IF user_profile.prefs # <<>>
        THEN PreferencesHeader \o BulletLines(user_profile.prefs) ELSE <<>>)

facts_text(key_facts) ==
    KeyFactsHeader \o Join([i \in 1..Len(key_facts) |-> <<"- ">> \o key_facts[i]], NL)

context_blocks(session_memory) ==
    (IF ObjectTruthy(session_memory.user_profile)
     THEN <<profile_text(session_memory.user_profile)>> ELSE <<>>)
    \o (IF session_memory.key_facts # <<>>
        THEN <<facts_text(session_memory.key_facts)>> ELSE <<>>)

\* ChatGenerator._build_system_prompt; session_memory is optional
build_system_prompt(session_memory) ==
    IF session_memory = None THEN base_prompt
    ELSE base_prompt \o Join(context_blocks(session_memory[1]), NL)

\* The comprehension without its key filter
clean_msg_unfiltered(msg) == msg

\* clean_msg = {k: v for k, v in msg.items() if k in ["role", "content", "name"]}
clean_msg(msg) == [k \in DOMAIN msg \cap {"role", "content", "name"} |-> msg[k]]

\* The messages generate_response assembles for the completion call
generate_response_messages(user_query, context_messages, session_memory) ==
    <<[role |-> "system", content |-> build_system_prompt(session_memory)]>>
    \o [i \in 1..Len(context_messages) |-> clean_msg(context_messages[i])]
    \o <<[role |-> "user", content |-> user_query]>>

----------------------------------------------------------------------------
(* Harness for the Chat Generator *)

GenProfiles ==
    {UserProfile(p, c) : p \in {<<>>, <<T_Python>>},
                         c \in {<<>>, <<T_NoJava>>, <<T_NoJava, T_Concise>>}}

GenMemories ==
    {None} \cup
    {Some(SessionSummary([user_profile |-> up, key_facts |-> kf, decisions |-> <<T_Concise>>,
                          open_questions |-> <<>>, todos |-> <<>>], MessageRange(0, 2))) :
        up \in GenProfiles, kf \in {<<>>, <<T_Huy>>, <<T_Huy, T_Viet>>}}

GenMessage ==
    {[role |-> "user", content |-> <<"h", "i">>],
     [role |-> "user", content |-> <<"h", "i">>, debug_info |-> [is_ambiguous |-> FALSE]],
     [role |-> "assistant", content |-> <<"h", "a", "t">>],
     [role |-> "user", content |-> <<"h", "a", "t">>, name |-> <<"a", "l">>,
      debug_info |-> [is_ambiguous |-> TRUE]]}

GenInit ==
    /\ gen_memory \in GenMemories
    /\ gen_context \in SeqsUpTo(GenMessage, MaxContext)
    /\ gen_query \in {<<"h", "i">>, T_Viet}
    /\ gen_prompt = None
    /\ gen_payload = <<>>
    /\ gen_pc = "init"

GenIdle ==
    /\ gen_memory = None
    /\ gen_context = <<>>
    /\ gen_query = <<>>
    /\ gen_prompt = None
    /\ gen_payload = <<>>
    /\ gen_pc = "off"

CallBuildSystemPrompt ==
    /\ gen_pc = "init"
    /\ gen_prompt' = Some(build_system_prompt(gen_memory))
    /\ gen_pc' = "built"
    /\ UNCHANGED <<gen_memory, gen_context, gen_query, gen_payload>>
    /\ UNCHANGED <<tkVars, mmVars, stVars, uiVars, pqVars, logVars>>

\* generate_response: the payload is assembled and sent; the completion call
\* returns a reply or raises.  Neither argument is assigned to.
CallGenerateResponse ==
    /\ gen_pc \in {"init", "built"}
    /\ gen_payload' = generate_response_messages(gen_query, gen_context, gen_memory)
    /\ gen_pc' \in {"sent", "error"}
    /\ UNCHANGED <<gen_memory, gen_context, gen_query, gen_prompt>>
    /\ UNCHANGED <<tkVars, mmVars, stVars, uiVars, pqVars, logVars>>

GenNext ==
    \/ CallBuildSystemPrompt
    \/ CallGenerateResponse

----------------------------------------------------------------------------
(* JSON values and text.  A JSON value is tagged: string, integer, list,   *)
(* object (an ordered sequence of <<key, value>> items), null or boolean.  *)
(* JSON text is a sequence of characters; a file is a sequence of bytes.   *)

JStr(text) == [j |-> "str", v |-> text]
JInt(n) == [j |-> "int", v |-> n]
JList(items) == [j |-> "list", v |-> items]
JObj(items) == [j |-> "obj", v |-> items]
JNull == [j |-> "null", v |-> 0]
JBool(b) == [j |-> "bool", v |-> b]

K(name) == <<name>>

Digits == <<"0", "1", "2", "3", "4", "5", "6", "7", "8", "9">>
DigitSet == {Digits[i] : i \in DOMAIN Digits}
DigitValue(d) == (CHOOSE i \in DOMAIN Digits : Digits[i] = d) - 1

\* Decimal text of a natural number
RECURSIVE IntToText(_)
IntToText(n) ==
    IF n < 10 THEN <<Digits[n + 1]>>
    ELSE IntToText(n \div 10) \o <<Digits[(n % 10) + 1]>>

\* String escaping of json.dump with ensure_ascii=False: quote, backslash
\* and newline are escaped, every other character is written as it is.
EscapeChar(c) ==
    IF c = "\"" THEN <<"\\", "\"">>
    ELSE IF c = "\\" THEN <<"\\", "\\">>
    ELSE IF c = "\n" THEN <<"\\", "n">>
    ELSE <<c>>

DumpString(text) ==
    <<"\"">> \o Flatten([i \in 1..Len(text) |-> EscapeChar(text[i])]) \o <<"\"">>

\* Newline and indentation of json.dump(indent=2) at a nesting level
Indent(level) == <<"\n">> \o [i \in 1..(2 * level) |-> " "]

\* json.dump(value, indent=2, ensure_ascii=False)
RECURSIVE Dump(_, _)
Dump(value, level) ==
    CASE value.j = "str" -> DumpString(value.v)
      [] value.j = "int" -> IntToText(value.v)
      [] value.j = "null" -> <<"null">>
      [] value.j = "bool" -> IF value.v THEN <<"true">> ELSE <<"false">>
      [] value.j = "list" ->
            IF value.v = <<>> THEN <<"[", "]">>
            ELSE <<"[">>
                 \o Join([i \in 1..Len(value.v) |->
                            Indent(level + 1) \o Dump(value.v[i], level + 1)], <<",">>)
                 \o Indent(level) \o <<"]">>
      [] value.j = "obj" ->
            IF value.v = <<>> THEN <<"{", "}">>
            ELSE <<"{">>
                 \o Join([i \in 1..Len(value.v) |->
                            Indent(level + 1) \o DumpString(value.v[i][1])
                            \o <<":", " ">> \o Dump(value.v[i][2], level + 1)], <<",">>)
                 \o Indent(level) \o <<"}">>

json_dump(data) == Dump(data, 0)

\* Parsing: a result is [ok, v, i] with i the position after the value.
ParseFail == [ok |-> FALSE, v |-> JNull, i |-> 0]
ParseOk(v, i) == [ok |-> TRUE, v |-> v, i |-> i]

Whitespace == {" ", "\n"}

RECURSIVE SkipWs(_, _)
SkipWs(s, i) == IF i <= Len(s) /\ s[i] \in Whitespace THEN SkipWs(s, i + 1) ELSE i

\* The body of a string, from the position after the opening quote
RECURSIVE ParseString(_, _, _)
ParseString(s, i, acc) ==
    IF i > Len(s) THEN ParseFail
    ELSE IF s[i] = "\"" THEN ParseOk(acc, i + 1)
    ELSE IF s[i] = "\n" THEN ParseFail
    ELSE IF s[i] = "\\" THEN
        IF i + 1 > Len(s) THEN ParseFail
        ELSE IF s[i + 1] \in {"\"", "\\"} THEN ParseString(s, i + 2, Append(acc, s[i + 1]))
        ELSE IF s[i + 1] = "n" THEN ParseString(s, i + 2, Append(acc, "\n"))
        ELSE ParseFail
    ELSE ParseString(s, i + 1, Append(acc, s[i]))

\* [1-9][0-9]* continued from an accumulated value
RECURSIVE ParseDigits(_, _, _)
ParseDigits(s, i, acc) ==
    IF i <= Len(s) /\ s[i] \in DigitSet
    THEN ParseDigits(s, i + 1, 10 * acc + DigitValue(s[i]))
    ELSE ParseOk(JInt(acc), i)

\* dict semantics: a repeated key keeps its place and takes the last value
PutItem(items, key, value) ==
    IF \E n \in DOMAIN items : items[n][1] = key
    THEN [n \in DOMAIN items |-> IF items[n][1] = key THEN <<key, value>> ELSE items[n]]
    ELSE Append(items, <<key, value>>)

RECURSIVE ParseValue(_, _)
RECURSIVE ParseItems(_, _, _)
RECURSIVE ParseMembers(_, _, _)

\* The elements of a non-empty list, from the position of the next element
ParseItems(s, i, acc) ==
    LET r == ParseValue(s, i)
    IN IF ~r.ok THEN ParseFail
       ELSE LET k == SkipWs(s, r.i)
            IN IF k > Len(s) THEN ParseFail
               ELSE IF s[k] = "," THEN ParseItems(s, k + 1, Append(acc, r.v))
               ELSE IF s[k] = "]" THEN ParseOk(JList(Append(acc, r.v)), k + 1)
               ELSE ParseFail

\* The members of a non-empty object, from the position of the next key
ParseMembers(s, i, acc) ==
    LET k0 == SkipWs(s, i)
    IN IF k0 > Len(s) \/ s[k0] # "\"" THEN ParseFail
       ELSE LET key == ParseString(s, k0 + 1, <<>>)
            IN IF ~key.ok THEN ParseFail
               ELSE LET c == SkipWs(s, key.i)
                    IN IF c > Len(s) \/ s[c] # ":" THEN ParseFail
                       ELSE LET r == ParseValue(s, c + 1)
                            IN IF ~r.ok THEN ParseFail
                               ELSE LET k == SkipWs(s, r.i)
                                        items == PutItem(acc, key.v, r.v)
                                    IN IF k > Len(s) THEN ParseFail
                                       ELSE IF s[k] = "," THEN ParseMembers(s, k + 1, items)
                                       ELSE IF s[k] = "}" THEN ParseOk(JObj(items), k + 1)
                                       ELSE ParseFail

ParseValue(s, i0) ==
    LET i == SkipWs(s, i0)
    IN IF i > Len(s) THEN ParseFail
       ELSE IF s[i] = "\"" THEN
            LET r == ParseString(s, i + 1, <<>>)
            IN IF r.ok THEN ParseOk(JStr(r.v), r.i) ELSE ParseFail
       ELSE IF s[i] = "0" THEN ParseOk(JInt(0), i + 1)
       ELSE IF s[i] \in DigitSet THEN ParseDigits(s, i, 0)
       ELSE IF s[i] = "null" THEN ParseOk(JNull, i + 1)
       ELSE IF s[i] = "true" THEN ParseOk(JBool(TRUE), i + 1)
       ELSE IF s[i] = "false" THEN ParseOk(JBool(FALSE), i + 1)
       ELSE IF s[i] = "[" THEN
            LET k == SkipWs(s, i + 1)
            IN IF k <= Len(s) /\ s[k] = "]" THEN ParseOk(JList(<<>>), k + 1)
               ELSE ParseItems(s, i + 1, <<>>)
       ELSE IF s[i] = "{" THEN
            LET k == SkipWs(s, i + 1)
            IN IF k <= Len(s) /\ s[k] = "}" THEN ParseOk(JObj(<<>>), k + 1)
               ELSE ParseMembers(s, i + 1, <<>>)
       ELSE ParseFail

\* json.load on decoded text: one value, then only whitespace.  The result is
\* [ok, v]; not ok is json.JSONDecodeError.
json_load(text) ==
    LET r == ParseValue(text, 1)
    IN IF r.ok /\ SkipWs(text, r.i) > Len(text)
       THEN [ok |-> TRUE, v |-> r.v]
       ELSE [ok |-> FALSE, v |-> JNull]

\* UTF-8.  Characters outside ASCII are named by their code point and take
\* several bytes; every other character is one byte, written as itself.
Utf8Table == [c \in {"U+1EC7"} |-> <<"xE1", "xBB", "x87">>]
NonAscii == DOMAIN Utf8Table
HighBytes == UNION {{Utf8Table[c][n] : n \in DOMAIN Utf8Table[c]} : c \in NonAscii}

utf8_encode(text) ==
    Flatten([i \in 1..Len(text) |->
               IF text[i] \in NonAscii THEN Utf8Table[text[i]] ELSE <<text[i]>>])


\* The character whose encoding starts at position i, if one does
CharAt(bytes, i) ==
    LET cs == {c \in NonAscii :
                 /\ i + Len(Utf8Table[c]) - 1 <= Len(bytes)
                 /\ SubSeq(bytes, i, i + Len(Utf8Table[c]) - 1) = Utf8Table[c]}
    IN IF cs = {} THEN None ELSE Some(CHOOSE c \in cs : TRUE)

\* Position i continues a character that starts before it
Continues(bytes, i) ==
    \E k \in Max(1, i - 3)..(i - 1) :
        /\ CharAt(bytes, k) # None
        /\ i <= k + Len(Utf8Table[CharAt(bytes, k)[1]]) - 1

\* Strict decoding: [ok, text]; not ok is UnicodeDecodeError (a byte of a
\* multi-byte character that is not part of a complete encoding).
utf8_decode(bytes) ==
    LET starts == SelectSeq([i \in 1..Len(bytes) |-> i],
                            LAMBDA i : ~Continues(bytes, i))
        bad == \E i \in 1..Len(bytes) :
                  /\ bytes[i] \in HighBytes
                  /\ CharAt(bytes, i) = None
                  /\ ~Continues(bytes, i)
    IN IF bad THEN [ok |-> FALSE, text |-> <<>>]
       ELSE [ok |-> TRUE,
             text |-> [n \in 1..Len(starts) |->
                         IF CharAt(bytes, starts[n]) # None
                         THEN CharAt(bytes, starts[n])[1]
                         ELSE bytes[starts[n]]]]

----------------------------------------------------------------------------
(* JSON persistence utility: src/utils/storage.py *)

\* save_json opening the file for appending
save_json_append(data, file) ==
    Some((IF file = None THEN <<>> ELSE file[1]) \o utf8_encode(json_dump(data)))

\* save_json: open(path, "w", encoding="utf-8") truncates the file and
\* json.dump writes the text; the result is the new file.
save_json(data, file) == Some(utf8_encode(json_dump(data)))

\* load_json: [raised, data].  A missing file and a JSONDecodeError give None
\* (JNull); any other exception of open / json.load is re-raised.
load_json(file) ==
    IF file = None THEN [raised |-> FALSE, data |-> JNull]
    ELSE LET d == utf8_decode(file[1])
         IN IF ~d.ok THEN [raised |-> TRUE, data |-> JNull]
            ELSE LET r == json_load(d.text)
                 IN IF ~r.ok THEN [raised |-> FALSE, data |-> JNull]
                    ELSE [raised |-> FALSE, data |-> r.v]


----------------------------------------------------------------------------
(* SessionSummary <-> JSON data *)

TextList(texts) == JList([i \in 1..Len(texts) |-> JStr(texts[i])])

\* SessionSummary.model_dump()
model_dump(summary) ==
    JObj(<<
        <<K("user_profile"),
          JObj(<< <<K("prefs"), TextList(summary.user_profile.prefs)>>,
                  <<K("constraints"), TextList(summary.user_profile.constraints)>> >>)>>,
        <<K("key_facts"), TextList(summary.key_facts)>>,
        <<K("decisions"), TextList(summary.decisions)>>,
        <<K("open_questions"), TextList(summary.open_questions)>>,
        <<K("todos"), TextList(summary.todos)>>,
        <<K("message_range_summarized"),
          JObj(<< <<K("start_index"), JInt(summary.message_range_summarized.start_index)>>,
                  <<K("end_index"), JInt(summary.message_range_summarized.end_index)>> >>)>>
    >>)

HasKey(obj, key) == \E n \in DOMAIN obj.v : obj.v[n][1] = key
Get(obj, key) == obj.v[CHOOSE n \in DOMAIN obj.v : obj.v[n][1] = key][2]

IsTextList(value) ==
    /\ value.j = "list"
    /\ \A n \in DOMAIN value.v : value.v[n].j = "str"

FromTextList(value) == [n \in DOMAIN value.v |-> value.v[n].v]

IsObjWith(value, keys) ==
    /\ value.j = "obj"
    /\ \A k \in keys : HasKey(value, K(k))

\* Validation of SessionSummary(**data): every field present with its type
ValidSummaryData(data) ==
    /\ IsObjWith(data, {"user_profile", "key_facts", "decisions", "open_questions",
                        "todos", "message_range_summarized"})
    /\ IsObjWith(Get(data, K("user_profile")), {"prefs", "constraints"})
    /\ IsTextList(Get(Get(data, K("user_profile")), K("prefs")))
    /\ IsTextList(Get(Get(data, K("user_profile")), K("constraints")))
    /\ \A k \in {"key_facts", "decisions", "open_questions", "todos"} :
         IsTextList(Get(data, K(k)))
    /\ IsObjWith(Get(data, K("message_range_summarized")), {"start_index", "end_index"})
    /\ Get(Get(data, K("message_range_summarized")), K("start_index")).j = "int"
    /\ Get(Get(data, K("message_range_summarized")), K("end_index")).j = "int"

\* SessionSummary(**data): the summary, or None when construction raises
summary_from_data(data) ==
    IF ~ValidSummaryData(data) THEN None
    ELSE LET up == Get(data, K("user_profile"))
             mr == Get(data, K("message_range_summarized"))
         IN Some(SessionSummary(
                   [user_profile |-> UserProfile(FromTextList(Get(up, K("prefs"))),
                                                 FromTextList(Get(up, K("constraints")))),
                    key_facts |-> FromTextList(Get(data, K("key_facts"))),
                    decisions |-> FromTextList(Get(data, K("decisions"))),
                    open_questions |-> FromTextList(Get(data, K("open_questions"))),
                    todos |-> FromTextList(Get(data, K("todos")))],
                   MessageRange(Get(mr, K("start_index")).v, Get(mr, K("end_index")).v)))

\* Python truthiness of loaded JSON data ("if data:")
Truthy(data) ==
    CASE data.j = "null" -> FALSE
      [] data.j = "bool" -> data.v
      [] data.j = "int" -> data.v # 0
      [] OTHER -> data.v # <<>>

----------------------------------------------------------------------------
(* Harness for the persistence utility *)

StSummaries ==
    {SessionSummary([user_profile |-> UserProfile(<<>>, <<>>), key_facts |-> <<>>,
                     decisions |-> <<>>, open_questions |-> <<>>, todos |-> <<>>],
                    MessageRange(0, 0)),
     SessionSummary([user_profile |-> UserProfile(<<T_Python>>, <<T_NoJava, T_Concise>>),
                     key_facts |-> <<T_Viet, T_Quote>>, decisions |-> <<>>,
                     open_questions |-> <<<<"\n">>>>, todos |-> <<<<>>>>],
                    MessageRange(3, 12))}

StInit ==
    /\ fs_file = None
    /\ st_saved = <<>>
    /\ st_intact = FALSE
    /\ st_loaded = [raised |-> FALSE, data |-> JNull]
    /\ st_pc = "idle"

StRestIdle ==
    /\ st_saved = <<>>
    /\ st_intact = FALSE
    /\ st_loaded = [raised |-> FALSE, data |-> JNull]
    /\ st_pc = "off"

StIdle ==
    /\ fs_file = None
    /\ StRestIdle

\* save_json(summary.model_dump(), path)
SaveJson ==
    /\ st_pc # "off"
    /\ Len(st_saved) < MaxSaves
    /\ \E summary \in StSummaries :
         /\ fs_file' = save_json(model_dump(summary), fs_file)
         /\ st_saved' = Append(st_saved, summary)
    /\ st_intact' = TRUE
    /\ st_pc' = "saved"
    /\ UNCHANGED st_loaded
    /\ UNCHANGED <<tkVars, mmVars, genVars, uiVars, pqVars, logVars>>

\* load_json(path)
LoadJson ==
    /\ st_pc # "off"
    /\ st_loaded' = load_json(fs_file)
    /\ st_pc' = "loaded"
    /\ UNCHANGED <<fs_file, st_saved, st_intact>>
    /\ UNCHANGED <<tkVars, mmVars, genVars, uiVars, pqVars, logVars>>

\* The file is damaged outside the program: only its first n bytes remain.
TruncateFile ==
    /\ st_pc # "off"
    /\ fs_file # None
    /\ st_intact
    /\ \E n \in 0..(Len(fs_file[1]) - 1) :
         fs_file' = Some(SubSeq(fs_file[1], 1, n))
    /\ st_intact' = FALSE
    /\ st_pc' = "idle"
    /\ UNCHANGED <<st_saved, st_loaded>>
    /\ UNCHANGED <<tkVars, mmVars, genVars, uiVars, pqVars, logVars>>

\* os.remove(path)
RemoveFile ==
    /\ st_pc # "off"
    /\ fs_file # None
    /\ fs_file' = None
    /\ st_intact' = FALSE
    /\ st_pc' = "idle"
    /\ UNCHANGED <<st_saved, st_loaded>>
    /\ UNCHANGED <<tkVars, mmVars, genVars, uiVars, pqVars, logVars>>

StNext ==
    \/ SaveJson
    \/ LoadJson
    \/ TruncateFile
    \/ RemoveFile

----------------------------------------------------------------------------
(* Harness for the token functions *)

\* Fractions: numerator over a positive denominator, in lowest terms
RECURSIVE Gcd(_, _)
Gcd(a, b) == IF b = 0 THEN a ELSE Gcd(b, a % b)
Frac(n, d) == LET g == Gcd(n, d) IN [num |-> n \div g, den |-> d \div g]
FracOne == [num |-> 1, den |-> 1]
FracMin(a, b) == IF b.num * a.den <= a.num * b.den THEN b ELSE a

\* The usage fraction without the cap
usage_pct_uncapped(curr_tokens, thr) ==
    IF thr > 0 THEN Frac(curr_tokens, thr) ELSE FracOne

\* pct = min(curr_tokens / threshold, 1.0) if threshold > 0 else 1.0
usage_pct(curr_tokens, thr) ==
    IF thr > 0 THEN FracMin(Frac(curr_tokens, thr), FracOne) ELSE FracOne

TkContents == {<<"h", "i">>, <<"h", "a", "t">>}
TkNames == {<<>>, <<"a", "l">>}
TkDebug == {[is_ambiguous |-> FALSE]}

\* Messages as the application and the fixtures build them: role and content
\* always, name and debug_info optionally.
TkMessage ==
    LET base == {[role |-> "user", content |-> c] : c \in TkContents}
        named == {b @@ [name |-> n] : b \in base, n \in TkNames}
        plain == base \cup named
    IN plain \cup {p @@ [debug_info |-> d] : p \in plain, d \in TkDebug}

TkInit ==
    /\ tk_messages \in SeqsUpTo(TkMessage, MaxTokMsgs)
    /\ threshold \in 0..MaxThreshold
    /\ num_tokens = 0
    /\ tk_should = FALSE
    /\ tk_pc = "init"
    /\ tk_pct = None

TkRestIdle ==
    /\ tk_messages = <<>>
    /\ num_tokens = 0
    /\ tk_should = FALSE
    /\ tk_pc = "off"
    /\ tk_pct = None

TkIdle ==
    /\ threshold = MEMORY_THRESHOLD_TOKENS
    /\ TkRestIdle

CallCountMessagesTokens ==
    /\ tk_pc = "init"
    /\ num_tokens' = count_messages_tokens(tk_messages)
    /\ tk_pc' = "counted"
    /\ UNCHANGED <<tk_messages, threshold, tk_should, tk_pct>>
    /\ UNCHANGED <<mmVars, genVars, stVars, uiVars, pqVars, logVars>>

CallShouldSummarize ==
    /\ tk_pc = "counted"
    /\ tk_should' = should_summarize(tk_messages, threshold)
    /\ tk_pc' = "checked"
    /\ UNCHANGED <<tk_messages, threshold, num_tokens, tk_pct>>
    /\ UNCHANGED <<mmVars, genVars, stVars, uiVars, pqVars, logVars>>

\* memory_manager.threshold = threshold (the attribute is assigned after
\* construction); the next check uses the new value.
SetThreshold ==
    /\ tk_pc = "checked"
    /\ \E t \in 0..MaxThreshold :
         /\ t # threshold
         /\ threshold' = t
    /\ tk_pc' = "counted"
    /\ tk_pct' = None
    /\ UNCHANGED <<tk_messages, num_tokens, tk_should>>
    /\ UNCHANGED <<mmVars, genVars, stVars, uiVars, pqVars, logVars>>

\* A field other than content / name is added to, changed in or removed from a
\* message after the count was taken.
SetOtherField ==
    /\ tk_pc = "counted"
    /\ \E i \in DOMAIN tk_messages, d \in TkDebug :
         LET m == tk_messages[i]
             stripped == [k \in DOMAIN m \ {"debug_info"} |-> m[k]]
         IN /\ \/ tk_messages' = [tk_messages EXCEPT ![i] = stripped @@ [debug_info |-> d]]
               \/ tk_messages' = [tk_messages EXCEPT ![i] = stripped]
            /\ tk_messages' # tk_messages
    /\ UNCHANGED <<threshold, num_tokens, tk_should, tk_pc, tk_pct>>
    /\ UNCHANGED <<mmVars, genVars, stVars, uiVars, pqVars, logVars>>

\* The sidebar's buffer usage: pct for the count taken and the threshold set
CallUsagePct ==
    /\ tk_pc \in {"counted", "checked"}
    /\ tk_pct' = Some([used |-> num_tokens, threshold |-> threshold,
                       value |-> usage_pct(num_tokens, threshold)])
    /\ tk_pct' # tk_pct
    /\ UNCHANGED <<tk_messages, threshold, num_tokens, tk_should, tk_pc>>
    /\ UNCHANGED <<mmVars, genVars, stVars, uiVars, pqVars, logVars>>

TkNext ==
    \/ CallCountMessagesTokens
    \/ CallShouldSummarize
    \/ SetThreshold
    \/ SetOtherField
    \/ CallUsagePct

----------------------------------------------------------------------------
(* The interactive application: app/ui.py *)

\* st.session_state.messages[-5:] (the context handed to both model calls)
ContextWindow == 5
\* the lower end of the threshold slider
SliderMin == 100

\* the fallback clarifying question
PleaseClarify == <<"Please clarify.">>

T_It == <<"i", "t">>
T_Bank == <<"b">>
T_Docker == <<"D">>
T_Which == <<"?">>
T_River == <<"R">>
T_Money == <<"M">>
T_Ok == <<"o", "k">>
T_Long == <<Paragraph, Paragraph>>

\* `if text:` on an optional text
TextTruthy(o) == o # None /\ o[1] # <<>>

\* QueryAnalysis (src/schemas/chat.py); model_dump() has the same fields
QueryAnalysis(amb, reason, rw, q, opts, facts, prefs) ==
    [is_ambiguous |-> amb, ambiguity_reason |-> reason, rewritten_query |-> rw,
     clarifying_question |-> q, clarification_options |-> opts,
     new_user_facts |-> facts, new_user_preferences |-> prefs]

\* The analyses the Query Pipeline is taken to return
Analyses ==
    {QueryAnalysis(FALSE, "none", None, None, <<>>, <<>>, <<>>),
     QueryAnalysis(FALSE, "none", Some(T_Docker), None, <<>>, <<T_Huy>>, <<T_NoJava>>),
     QueryAnalysis(TRUE, "ambiguous_topic", Some(T_Docker), Some(T_Which), <<T_River, T_Money>>,
                   <<>>, <<>>),
     QueryAnalysis(TRUE, "ambiguous_topic", None, None, <<T_River, T_Money>>, <<T_Huy>>, <<>>),
     QueryAnalysis(TRUE, "ambiguous_reference", Some(T_Docker), None, <<>>, <<>>, <<>>)}

\* Outcomes of the three model calls: a value, or absent when the call raises
AnalysisOutcomes == {None} \cup {Some(a) : a \in Analyses}
ReplyOutcomes == {None, Some(T_Long)}
ContentOutcomes == {None} \cup {Some(c) : c \in {x \in AiContents : x.key_facts # <<>>}}
\* Hydration reads only the facts and preferences of an analysis
HydrationOutcomes ==
    {None,
     Some(QueryAnalysis(FALSE, "none", None, None, <<>>, <<>>, <<>>)),
     Some(QueryAnalysis(FALSE, "none", None, None, <<>>, <<T_Huy>>, <<T_NoJava>>))}

UserMsg(c) == [role |-> "user", content |-> c]
AssistantMsg(c) == [role |-> "assistant", content |-> c]

\* The session state a script run works on, with the memory file
Session ==
    [messages |-> messages, session_summary |-> session_summary,
     last_summary_index |-> last_summary_index, pending_options |-> pending_options,
     test_prompt |-> test_prompt, file |-> fs_file]

\* What a script run did: the prompt it handled, the calls it made and how it
\* ended
NoReport ==
    [inited_now |-> FALSE, prompt |-> None, analysis |-> None, blocked |-> FALSE,
     gen_calls |-> 0, gen_query |-> None, gen_context |-> <<>>,
     consolidated |-> FALSE, buffer |-> None, hydrated |-> <<>>, scenario |-> None,
     error |-> "none"]

\* Session-state initialisation
InitSessionState(s) ==
    LET loaded == load_json(s.file)
    IN IF loaded.raised THEN [raised |-> TRUE, s |-> s]
       ELSE [raised |-> FALSE,
             s |-> [s EXCEPT
                      !.messages = <<>>,
                      !.session_summary = IF Truthy(loaded.data)
                                          THEN summary_from_data(loaded.data)
                                          ELSE None,
                      !.last_summary_index = 0,
                      !.pending_options = <<>>,
                      !.test_prompt = None]]

\* Input handling: the prompt of this run, if any
InputHandling(s, pill_selection, chat_input_val) ==
    LET queued == TextTruthy(s.test_prompt)
        s1 == IF queued THEN [s EXCEPT !.test_prompt = None] ELSE s
    IN IF pill_selection # None
       THEN [prompt |-> pill_selection, s |-> [s1 EXCEPT !.pending_options = <<>>]]
       ELSE IF chat_input_val # None
       THEN [prompt |-> chat_input_val, s |-> [s1 EXCEPT !.pending_options = <<>>]]
       ELSE [prompt |-> IF queued THEN s.test_prompt ELSE None, s |-> s1]

\* The fast path overwriting the lists instead of extending them
FastPathOverwrites(summary, analysis) ==
    IF analysis.new_user_facts # <<>> \/ analysis.new_user_preferences # <<>>
    THEN LET mem == IF summary = None THEN EmptySummary ELSE summary[1]
         IN Some([mem EXCEPT
                    !.key_facts = analysis.new_user_facts,
                    !.user_profile.constraints = analysis.new_user_preferences])
    ELSE summary

\* Fast-path memory update
FastPath(summary, analysis) ==
    IF analysis.new_user_facts # <<>> \/ analysis.new_user_preferences # <<>>
    THEN LET mem == IF summary = None THEN EmptySummary ELSE summary[1]
         IN Some([mem EXCEPT
                    !.key_facts = @ \o analysis.new_user_facts,
                    !.user_profile.constraints = @ \o analysis.new_user_preferences])
    ELSE summary

Blocked(analysis) == analysis.is_ambiguous /\ analysis.clarification_options # <<>>

\* The query handed to the Chat Generator, with the rewrite dropped
final_query_never_rewritten(prompt, analysis) == prompt

\* The query handed to the Chat Generator
final_query(prompt, analysis) ==
    IF analysis.is_ambiguous /\ TextTruthy(analysis.rewritten_query)
    THEN analysis.rewritten_query[1]
    ELSE prompt

\* The blocked branch, generating all the same
BlockedTurnGenerates(s1, user_msg, a, rep) ==
    [s |-> [s1 EXCEPT
              !.pending_options = a.clarification_options,
              !.messages = @ \o <<user_msg, AssistantMsg(PleaseClarify)>>],
     rerun |-> TRUE,
     report |-> [rep EXCEPT !.blocked = TRUE, !.gen_calls = 1]]

\* D) an ambiguous prompt with options: ask, do not generate
BlockedTurn(s1, user_msg, a, rep) ==
    [s |-> [s1 EXCEPT
              !.pending_options = a.clarification_options,
              !.messages = @ \o <<user_msg,
                                  AssistantMsg(IF TextTruthy(a.clarifying_question)
                                               THEN a.clarifying_question[1]
                                               ELSE PleaseClarify)>>],
     rerun |-> TRUE,
     report |-> [rep EXCEPT !.blocked = TRUE]]

\* The generation branch writing the memory file after the reply
GenerateTurnSaves(s1, user_msg, prompt, a, reply, rep) ==
    LET s2 == [s1 EXCEPT !.messages = Append(@, user_msg)]
        query == final_query(prompt, a)
        context == LastN(s2.messages, ContextWindow)
        rep2 == [rep EXCEPT !.gen_calls = 1, !.gen_query = Some(query),
                            !.gen_context = context]
    IN IF reply = None
       THEN [s |-> s2, rerun |-> FALSE, report |-> [rep2 EXCEPT !.error = "generation"]]
       ELSE [s |-> [s2 EXCEPT !.messages = Append(@, AssistantMsg(reply[1])),
                              !.file = IF s2.session_summary = None THEN @
                                       ELSE save_json(model_dump(s2.session_summary[1]), @)],
             rerun |-> TRUE, report |-> rep2]

\* E) generation
GenerateTurn(s1, user_msg, prompt, a, reply, rep) ==
    LET s2 == [s1 EXCEPT !.messages = Append(@, user_msg)]
        query == final_query(prompt, a)
        context == LastN(s2.messages, ContextWindow)
        rep2 == [rep EXCEPT !.gen_calls = 1, !.gen_query = Some(query),
                            !.gen_context = context]
    IN IF reply = None
       THEN [s |-> s2, rerun |-> FALSE, report |-> [rep2 EXCEPT !.error = "generation"]]
       ELSE [s |-> [s2 EXCEPT !.messages = Append(@, AssistantMsg(reply[1]))],
             rerun |-> TRUE, report |-> rep2]

\* The turn: B) analysis, C) fast path, D) ambiguity, E) generation
Turn(s, prompt, an, reply, rep0) ==
    LET rep == [rep0 EXCEPT !.prompt = Some(prompt), !.analysis = an]
    IN IF an = None
       THEN [s |-> s, rerun |-> FALSE, report |-> [rep EXCEPT !.error = "analysis"]]
       ELSE LET a == an[1]
                s1 == [s EXCEPT !.session_summary = FastPath(@, a)]
                user_msg == [role |-> "user", content |-> prompt, debug_info |-> a]
            IN IF Blocked(a)
               THEN BlockedTurn(s1, user_msg, a, rep)
               ELSE GenerateTurn(s1, user_msg, prompt, a, reply, rep)

\* The whole history handed to the consolidation
active_buffer_whole_history(s) == s.messages

\* active_buffer: the messages after the last consolidation
active_buffer(s) == From(s.messages, s.last_summary_index)

\* The consolidation block moving the cursor before the summary is produced
ConsolidationBlockCursorFirst(s, thr, content, save_ok, rep0) ==
    LET buffer == active_buffer(s)
        rep == [rep0 EXCEPT !.buffer = Some(buffer)]
        s0 == [s EXCEPT !.last_summary_index = Len(s.messages)]
    IN IF ~should_summarize(buffer, thr)
       THEN [s |-> s, rerun |-> FALSE, report |-> rep0]
       ELSE IF content = None
       THEN [s |-> s0, rerun |-> FALSE, report |-> [rep EXCEPT !.error = "consolidation"]]
       ELSE LET new_summary == summarize_messages(buffer, s.session_summary,
                                                  content[1])
                s1 == [s0 EXCEPT !.session_summary = Some(new_summary)]
            IN IF ~save_ok
               THEN [s |-> s1, rerun |-> FALSE, report |-> [rep EXCEPT !.error = "save"]]
               ELSE [s |-> [s1 EXCEPT !.file = save_json(model_dump(new_summary), @)],
                     rerun |-> TRUE,
                     report |-> [rep EXCEPT !.consolidated = TRUE]]

\* The consolidation block leaving the cursor where it was
ConsolidationBlockKeepsCursor(s, thr, content, save_ok, rep0) ==
    LET buffer == active_buffer(s)
        rep == [rep0 EXCEPT !.buffer = Some(buffer)]
    IN IF ~should_summarize(buffer, thr)
       THEN [s |-> s, rerun |-> FALSE, report |-> rep0]
       ELSE IF content = None
       THEN [s |-> s, rerun |-> FALSE, report |-> [rep EXCEPT !.error = "consolidation"]]
       ELSE LET new_summary == summarize_messages(buffer, s.session_summary,
                                                  content[1])
                s1 == [s EXCEPT !.session_summary = Some(new_summary)]
            IN IF ~save_ok
               THEN [s |-> s1, rerun |-> FALSE, report |-> [rep EXCEPT !.error = "save"]]
               ELSE [s |-> [s1 EXCEPT !.file = save_json(model_dump(new_summary), @)],
                     rerun |-> TRUE,
                     report |-> [rep EXCEPT !.consolidated = TRUE]]

\* F) memory consolidation
ConsolidationBlock(s, thr, content, save_ok, rep0) ==
    LET buffer == active_buffer(s)
        rep == [rep0 EXCEPT !.buffer = Some(buffer)]
    IN IF ~should_summarize(buffer, thr)
       THEN [s |-> s, rerun |-> FALSE, report |-> rep0]
       ELSE IF content = None
       THEN [s |-> s, rerun |-> FALSE, report |-> [rep EXCEPT !.error = "consolidation"]]
       ELSE LET new_summary == summarize_messages(buffer, s.session_summary,
                                                  content[1])
                s1 == [s EXCEPT !.session_summary = Some(new_summary),
                                !.last_summary_index = Len(s.messages)]
            IN IF ~save_ok
               THEN [s |-> s1, rerun |-> FALSE, report |-> [rep EXCEPT !.error = "save"]]
               ELSE [s |-> [s1 EXCEPT !.file = save_json(model_dump(new_summary), @)],
                     rerun |-> TRUE,
                     report |-> [rep EXCEPT !.consolidated = TRUE]]

\* Memory hydration: the facts and preferences of each user message of the
\* history go into the summary; the loop stops at the first call that raises.
RECURSIVE Hydrate(_, _, _, _, _)
Hydrate(history, i, summary, outcomes, calls) ==
    IF i > Len(history) THEN [summary |-> summary, raised |-> FALSE, calls |-> calls]
    ELSE IF history[i].role # "user"
    THEN Hydrate(history, i + 1, summary, outcomes, calls)
    ELSE IF outcomes[i] = None
    THEN [summary |-> summary, raised |-> TRUE, calls |-> calls]
    ELSE Hydrate(history, i + 1, FastPath(summary, outcomes[i][1]), outcomes,
                 Append(calls, outcomes[i][1]))

\* The messages of the fixture whose analysis the hydration asks for
HydratedIndices(filename, data) ==
    IF filename = "context.json" /\ data # None
    THEN {i \in 1..(Len(data[1]) - 1) : data[1][i].role = "user"}
    ELSE {}

\* load_test_scenario resetting the session before it reads the fixture
load_test_scenario_reset_first(s, filename, data, outcomes) ==
    [s |-> [s EXCEPT !.messages = <<>>, !.session_summary = None,
                     !.last_summary_index = 0, !.pending_options = <<>>],
     raised |-> data = None, hydrated |-> <<>>]

\* load_test_scenario loading every fixture verbatim
load_test_scenario_verbatim(s, filename, data, outcomes) ==
    IF data = None THEN [s |-> s, raised |-> TRUE, hydrated |-> <<>>]
    ELSE [s |-> [s EXCEPT !.messages = data[1], !.session_summary = None,
                          !.last_summary_index = 0, !.pending_options = <<>>,
                          !.test_prompt = None],
          raised |-> FALSE, hydrated |-> <<>>]

\* load_test_scenario(filename): data is the parsed fixture, absent when the
\* file cannot be opened or parsed
load_test_scenario(s, filename, data, outcomes) ==
    IF data = None THEN [s |-> s, raised |-> TRUE, hydrated |-> <<>>]
    ELSE LET d == data[1]
             s0 == [s EXCEPT !.messages = <<>>, !.session_summary = None,
                             !.last_summary_index = 0, !.pending_options = <<>>]
         IN IF filename = "long_session.json"
            THEN [s |-> [s0 EXCEPT !.messages = d, !.test_prompt = None],
                  raised |-> FALSE, hydrated |-> <<>>]
            ELSE IF d # <<>> /\ d[Len(d)].role = "user"
            THEN LET history == SubSeq(d, 1, Len(d) - 1)
                     s1 == [s0 EXCEPT !.messages = history,
                                      !.test_prompt = Some(d[Len(d)].content)]
                 IN IF filename = "context.json"
                    THEN LET h == Hydrate(history, 1, None, outcomes, <<>>)
                         IN [s |-> [s1 EXCEPT !.session_summary = h.summary],
                             raised |-> h.raised, hydrated |-> h.calls]
                    ELSE [s |-> s1, raised |-> FALSE, hydrated |-> <<>>]
            ELSE [s |-> [s0 EXCEPT !.messages = d], raised |-> FALSE, hydrated |-> <<>>]

\* The values of the slider the user is taken to pick
SliderValues == {SliderMin, MEMORY_THRESHOLD_TOKENS}
\* The texts the user is taken to type
ChatInputs == {T_It}
Filenames == {"ambiguous.json", "context.json", "long_session.json"}
\* The fixture files: lists of role/content messages
Fixtures ==
    {<<UserMsg(T_It)>>,
     <<UserMsg(T_Bank), AssistantMsg(T_Ok), UserMsg(T_It)>>,
     <<UserMsg(T_It), AssistantMsg(T_Long), UserMsg(T_It), AssistantMsg(T_Long)>>}
FixtureOutcomes == {None, Some(<<>>)} \cup {Some(d) : d \in Fixtures}

\* The memory file found at start-up
StoredSummary ==
    SessionSummary([user_profile |-> UserProfile(<<T_Python>>, <<>>),
                    key_facts |-> <<T_Viet>>, decisions |-> <<>>,
                    open_questions |-> <<>>, todos |-> <<>>],
                   MessageRange(0, 2))
FileValid == save_json(model_dump(StoredSummary), None)
FileCutInCharacter ==
    LET bytes == FileValid[1]
        lead == CHOOSE i \in DOMAIN bytes :
                    /\ bytes[i] \in HighBytes
                    /\ \A j \in 1..(i - 1) : bytes[j] \notin HighBytes
    IN Some(SubSeq(bytes, 1, lead))
FileNotSummary == save_json(JObj(<< <<K("key_facts"), JInt(1)>> >>), None)
UiFiles == {None, FileValid, FileCutInCharacter, FileNotSummary}

UiInit ==
    /\ messages = <<>>
    /\ session_summary = None
    /\ last_summary_index = 0
    /\ pending_options = <<>>
    /\ test_prompt = None
    /\ ui_inited = FALSE
    /\ ui_pc = "start"
    /\ ui_last = NoReport
    /\ summarized = <<>>
    /\ threshold = MEMORY_THRESHOLD_TOKENS
    /\ fs_file \in UiFiles

UiIdle ==
    /\ messages = <<>>
    /\ session_summary = None
    /\ last_summary_index = 0
    /\ pending_options = <<>>
    /\ test_prompt = None
    /\ ui_inited = FALSE
    /\ ui_pc = "off"
    /\ ui_last = NoReport
    /\ summarized = <<>>

\* The run ends: session state and file as the run left them
Commit(r, thr, loaded) ==
    /\ messages' = r.s.messages
    /\ session_summary' = r.s.session_summary
    /\ last_summary_index' = r.s.last_summary_index
    /\ pending_options' = r.s.pending_options
    /\ test_prompt' = r.s.test_prompt
    /\ fs_file' = r.s.file
    /\ threshold' = thr
    /\ ui_inited' = TRUE
    /\ ui_pc' = IF r.rerun THEN "rerun" ELSE "idle"
    /\ ui_last' = r.report
    /\ summarized' = IF loaded THEN <<>>
                     ELSE IF r.report.buffer # None /\ r.report.error # "consolidation"
                     THEN Append(summarized, r.report.buffer[1])
                     ELSE summarized
    /\ UNCHANGED <<tkRest, mmVars, genVars, stRest, pqVars, logVars>>

\* The turn with this analysis outcome reaches the generation call
Generates(an) == an # None /\ ~Blocked(an[1])

\* MAIN UI: input handling, then the turn or the consolidation check; a call
\* that is not made has no outcome to choose
Main(s, thr, pill_selection, chat_input_val, rep) ==
    LET ih == InputHandling(s, pill_selection, chat_input_val)
        due == should_summarize(active_buffer(ih.s), thr)
    IN IF TextTruthy(ih.prompt)
       THEN /\ Len(ih.s.messages) + 2 <= MaxMessages
            /\ \E an \in AnalysisOutcomes :
                 \E reply \in IF Generates(an) THEN ReplyOutcomes ELSE {None} :
                    Commit(Turn(ih.s, ih.prompt[1], an, reply, rep), thr, FALSE)
       ELSE \E content \in IF due THEN ContentOutcomes ELSE {None} :
                 \E save_ok \in IF due /\ content # None THEN BOOLEAN ELSE {TRUE} :
                    Commit(ConsolidationBlock(ih.s, thr, content, save_ok, rep), thr, FALSE)

\* A script run without a widget event: the first one of the session, or the
\* one st.rerun() asked for
RunScript ==
    /\ ui_pc \in {"start", "rerun"}
    /\ LET init == IF ui_inited THEN [raised |-> FALSE, s |-> Session]
                   ELSE InitSessionState(Session)
           rep == [NoReport EXCEPT !.inited_now = ~ui_inited]
       IN IF init.raised
          THEN /\ ui_pc' = "idle"
               /\ ui_last' = [rep EXCEPT !.error = "load"]
               /\ UNCHANGED <<messages, session_summary, last_summary_index,
                              pending_options, test_prompt, ui_inited, summarized>>
               /\ UNCHANGED <<tkVars, mmVars, genVars, stVars, pqVars, logVars>>
          ELSE Main(init.s, threshold, None, None, rep)

\* The user moves the threshold slider
MoveSlider ==
    /\ ui_pc = "idle" /\ ui_inited
    /\ \E t \in SliderValues \ {threshold} :
         Main(Session, t, None, None, NoReport)

\* The user clicks one of the three scenario buttons
ClickScenario ==
    /\ ui_pc = "idle" /\ ui_inited
    /\ \E filename \in Filenames, data \in FixtureOutcomes :
         \E outcomes \in [HydratedIndices(filename, data) -> HydrationOutcomes] :
            LET r == load_test_scenario(Session, filename, data, outcomes)
                rep == [NoReport EXCEPT
                          !.hydrated = r.hydrated,
                          !.scenario = IF data = None THEN None
                                       ELSE Some([filename |-> filename,
                                                  data |-> data[1]])]
            IN Commit([s |-> r.s, rerun |-> TRUE,
                       report |-> IF data = None THEN [rep EXCEPT !.error = "fixture"]
                                  ELSE IF r.raised THEN [rep EXCEPT !.error = "hydration"]
                                  ELSE rep],
                      threshold, data # None)

\* Reset Brain leaving the memory file in place
ClickResetKeepsFile ==
    /\ ui_pc = "idle" /\ ui_inited
    /\ messages' = <<>>
    /\ session_summary' = None
    /\ last_summary_index' = 0
    /\ pending_options' = <<>>
    /\ test_prompt' = None
    /\ ui_inited' = FALSE
    /\ ui_pc' = "rerun"
    /\ ui_last' = NoReport
    /\ summarized' = <<>>
    /\ UNCHANGED <<threshold, fs_file>>
    /\ UNCHANGED <<tkRest, mmVars, genVars, stRest, pqVars, logVars>>

\* A reset that clears the history and leaves the cursor where it was
ClickResetKeepsCursor ==
    /\ ui_pc = "idle" /\ ui_inited
    /\ messages' = <<>>
    /\ session_summary' = None
    /\ pending_options' = <<>>
    /\ test_prompt' = None
    /\ ui_inited' = FALSE
    /\ fs_file' = None
    /\ ui_pc' = "rerun"
    /\ ui_last' = NoReport
    /\ summarized' = <<>>
    /\ UNCHANGED <<threshold, last_summary_index>>
    /\ UNCHANGED <<tkRest, mmVars, genVars, stRest, pqVars, logVars>>

\* The user clicks Reset Brain: session_state.clear(), os.remove, st.rerun()
ClickReset ==
    /\ ui_pc = "idle" /\ ui_inited
    /\ messages' = <<>>
    /\ session_summary' = None
    /\ last_summary_index' = 0
    /\ pending_options' = <<>>
    /\ test_prompt' = None
    /\ ui_inited' = FALSE
    /\ fs_file' = None
    /\ ui_pc' = "rerun"
    /\ ui_last' = NoReport
    /\ summarized' = <<>>
    /\ UNCHANGED threshold
    /\ UNCHANGED <<tkRest, mmVars, genVars, stRest, pqVars, logVars>>

\* The user types a message
SubmitChat ==
    /\ ui_pc = "idle" /\ ui_inited
    /\ \E text \in ChatInputs :
         Main(Session, threshold, None, Some(text), NoReport)

\* The user picks one of the pending options
SelectPill ==
    /\ ui_pc = "idle" /\ ui_inited
    /\ ~TextTruthy(test_prompt)
    /\ \E i \in DOMAIN pending_options :
         Main(Session, threshold, Some(pending_options[i]), None, NoReport)

UiNext ==
    \/ RunScript
    \/ MoveSlider
    \/ ClickScenario
    \/ ClickReset
    \/ SubmitChat
    \/ SelectPill

----------------------------------------------------------------------------
(* The Query Pipeline: src/core/pipeline.py *)

\* QueryPipeline.__init__: the attributes of the object
PipelineObject == [client |-> "OpenAI", model_name |-> "MODEL_NAME"]

\* The user message analyze_query builds: memory context, recent history and
\* the current query
analysis_request(current_query, recent_messages, session_memory) ==
    [memory_context |-> IF session_memory = None THEN None
                        ELSE Some([user_profile |-> session_memory[1].user_profile,
                                   recent_session_summaries |-> <<>>]),
     recent |-> recent_messages,
     query |-> current_query]

\* analyze_query keeping the facts of earlier calls on the object
analyze_query_cumulative(self, current_query, recent_messages, session_memory, outcome) ==
    LET seen == IF "seen" \in DOMAIN self THEN self.seen ELSE <<>>
        facts == IF outcome = None THEN <<>> ELSE outcome[1].new_user_facts
    IN [self |-> [k \in DOMAIN self \cup {"seen"} |->
                    IF k = "seen" THEN seen \o facts ELSE self[k]],
        recent_messages |-> recent_messages,
        session_memory |-> session_memory,
        request |-> analysis_request(current_query, recent_messages, session_memory),
        raised |-> outcome = None,
        value |-> IF outcome = None THEN None
                  ELSE Some([outcome[1] EXCEPT !.new_user_facts = seen \o @])]

\* analyze_query: outcome is what the LLM boundary does with the request, a
\* parsed QueryAnalysis or absent when it raises; the exception is printed and
\* re-raised.  The result carries the object and the arguments as the call
\* leaves them.
analyze_query(self, current_query, recent_messages, session_memory, outcome) ==
    [self |-> self,
     recent_messages |-> recent_messages,
     session_memory |-> session_memory,
     request |-> analysis_request(current_query, recent_messages, session_memory),
     raised |-> outcome = None,
     value |-> outcome]

PqInit ==
    /\ pq_self = PipelineObject
    /\ pq_recent \in {<<>>, <<UserMsg(T_Bank), AssistantMsg(T_Ok)>>}
    /\ pq_memory \in {None, Some(EmptySummary), Some(StoredSummary)}
    /\ pq_prev = None
    /\ pq_last = None
    /\ pq_calls = 0

PqIdle ==
    /\ pq_self = PipelineObject
    /\ pq_recent = <<>>
    /\ pq_memory = None
    /\ pq_prev = None
    /\ pq_last = None
    /\ pq_calls = MaxCalls

\* pipeline.analyze_query(query, recent_messages, session_memory)
CallAnalyzeQuery ==
    /\ pq_calls < MaxCalls
    /\ \E query \in {T_It, T_Bank}, outcome \in AnalysisOutcomes :
         LET r == analyze_query(pq_self, query, pq_recent, pq_memory, outcome)
         IN /\ pq_self' = r.self
            /\ pq_recent' = r.recent_messages
            /\ pq_memory' = r.session_memory
            /\ pq_prev' = pq_last
            /\ pq_last' = Some([query |-> query, llm |-> outcome,
                                raised |-> r.raised, value |-> r.value])
    /\ pq_calls' = pq_calls + 1
    /\ UNCHANGED <<tkVars, mmVars, genVars, stVars, uiVars, logVars>>

----------------------------------------------------------------------------
(* Log replay: app/cli.py, run_log *)

\* MemoryManager(threshold=200)
RunLogThreshold == 200

\* The log files: lists of role/content messages
LogFiles ==
    Fixtures \cup
    {<<UserMsg(T_It), AssistantMsg(T_Long), UserMsg(T_Bank), AssistantMsg(T_Long),
       UserMsg(T_It), AssistantMsg(T_Long), UserMsg(T_Bank), AssistantMsg(T_Long),
       UserMsg(T_It)>>,
     <<UserMsg(T_It), AssistantMsg(T_Ok), UserMsg(T_Bank), AssistantMsg(T_Ok),
       UserMsg(T_It), AssistantMsg(T_Ok), UserMsg(T_Bank)>>}

\* What a loop iteration did: the role of the message, the analysis call and
\* its arguments, the buffer the threshold check ran on, the consolidation call
NoStep ==
    [role |-> "none", analysed |-> FALSE, window |-> <<>>, memory |-> None,
     checked |-> None, consolidated |-> None]

\* The consolidation leaving the buffer as it is
log_consolidate_keeps_buffer(buffer, session_memory, ai_content) ==
    [session_memory |-> Some(summarize_messages(buffer, session_memory, ai_content)),
     processed_messages |-> buffer]

\* 3) Memory check, triggered: the new summary replaces session_memory and the
\* buffer is reset
log_consolidate(buffer, session_memory, ai_content) ==
    [session_memory |-> Some(summarize_messages(buffer, session_memory, ai_content)),
     processed_messages |-> <<>>]

LogInit ==
    /\ log_messages = <<>>
    /\ log_i = 0
    /\ log_memory = None
    /\ processed_messages = <<>>
    /\ log_pc = "start"
    /\ log_last = NoStep

LogIdle ==
    /\ log_messages = <<>>
    /\ log_i = 0
    /\ log_memory = None
    /\ processed_messages = <<>>
    /\ log_pc = "off"
    /\ log_last = NoStep

\* run_log up to the loop: load the file, return if there is nothing to replay
StartRunLog ==
    /\ log_pc = "start"
    \* load_log_file: the parsed list, or the empty list on any failure
    /\ \E loaded \in {<<>>} \cup LogFiles :
         /\ log_messages' = loaded
         /\ log_pc' = IF loaded = <<>> THEN "done" ELSE "running"
    /\ UNCHANGED <<log_i, log_memory, processed_messages, log_last>>
    /\ UNCHANGED <<tkVars, mmVars, genVars, stVars, uiVars, pqVars>>

\* One iteration of the loop: analysis of a user message, append to the
\* buffer, memory check and consolidation.  An exception of either model call
\* ends the command.
ReplayMessage ==
    /\ log_pc = "running"
    /\ LET msg == log_messages[log_i + 1]
           buffer == Append(processed_messages, msg)
           last == log_i + 1 = Len(log_messages)
           step == [NoStep EXCEPT
                      !.role = msg.role,
                      !.analysed = (msg.role = "user"),
                      !.window = IF msg.role = "user"
                                 THEN LastN(processed_messages, ContextWindow)
                                 ELSE <<>>,
                      !.memory = IF msg.role = "user" THEN log_memory ELSE None]
       IN \E an \in IF msg.role = "user" THEN AnalysisOutcomes
                    ELSE {Some(CHOOSE a \in Analyses : TRUE)} :
            IF an = None
            THEN /\ log_pc' = "failed_analysis"
                 /\ log_last' = step
                 /\ UNCHANGED <<log_i, log_memory, processed_messages>>
            ELSE IF ~should_summarize(buffer, threshold)
            THEN /\ processed_messages' = buffer
                 /\ log_i' = log_i + 1
                 /\ log_pc' = IF last THEN "done" ELSE "running"
                 /\ log_last' = [step EXCEPT !.checked = Some(buffer)]
                 /\ UNCHANGED log_memory
            ELSE \E content \in ContentOutcomes :
                   LET called == [step EXCEPT
                                    !.checked = Some(buffer),
                                    !.consolidated =
                                        Some([buffer |-> buffer, previous |-> log_memory])]
                   IN IF content = None
                      THEN /\ processed_messages' = buffer
                           /\ log_pc' = "failed_consolidation"
                           /\ log_last' = called
                           /\ UNCHANGED <<log_i, log_memory>>
                      ELSE LET r == log_consolidate(buffer, log_memory, content[1])
                           IN /\ log_memory' = r.session_memory
                              /\ processed_messages' = r.processed_messages
                              /\ log_i' = log_i + 1
                              /\ log_pc' = IF last THEN "done" ELSE "running"
                              /\ log_last' = called
    /\ UNCHANGED log_messages
    /\ UNCHANGED <<tkVars, mmVars, genVars, stVars, uiVars, pqVars>>

LogNext ==
    \/ StartRunLog
    \/ ReplayMessage

----------------------------------------------------------------------------
(* Specifications: each exercises one part, the others stay idle *)

InitTok == TkInit /\ MmIdle /\ GenIdle /\ StIdle /\ UiIdle /\ PqIdle /\ LogIdle
SpecTok == InitTok /\ [][TkNext]_vars

InitMem == MmInit /\ TkIdle /\ GenIdle /\ StIdle /\ UiIdle /\ PqIdle /\ LogIdle
SpecMem == InitMem /\ [][MmNext]_vars

InitGen == GenInit /\ TkIdle /\ MmIdle /\ StIdle /\ UiIdle /\ PqIdle /\ LogIdle
SpecGen == InitGen /\ [][GenNext]_vars

InitStore == StInit /\ TkIdle /\ MmIdle /\ GenIdle /\ UiIdle /\ PqIdle /\ LogIdle
SpecStore == InitStore /\ [][StNext]_vars

InitPipe == PqInit /\ TkIdle /\ MmIdle /\ GenIdle /\ StIdle /\ UiIdle /\ LogIdle
SpecPipe == InitPipe /\ [][CallAnalyzeQuery]_vars

\* The application is started as the interactive session (app/ui.py) or as
\* the log replay command (app/cli.py run-log)
Init ==
    /\ \/ UiInit /\ LogIdle
       \/ LogInit /\ UiIdle /\ threshold = RunLogThreshold /\ fs_file = None
    /\ TkRestIdle /\ MmIdle /\ GenIdle /\ StRestIdle /\ PqIdle
Next ==
    \/ UiNext
    \/ LogNext
Spec == Init /\ [][Next]_vars

----------------------------------------------------------------------------
(* C1, C2 *)

EncodedLength(text) == Len(encode(text))

NamePresent(m) == "name" \in DOMAIN m

\* The closed form of the accounting
TokenFormula(M) ==
    3 * Len(M)
    + SumSeq([i \in 1..Len(M) |->
                EncodedLength(M[i].content)
                + (IF NamePresent(M[i]) THEN EncodedLength(M[i].name) + 1 ELSE 0)])
    + 3

\* C1: count_messages_tokens(M) = 3*len(M) + sum of (encoded length of content
\* + encoded length of name + 1 if a name is present) + 3; the count taken
\* before another field of a message was added, changed or removed is still
\* the count of the list, and the empty list counts 3.
C1_TokenFormula ==
    tk_pc # "init" =>
        /\ num_tokens = TokenFormula(tk_messages)
        /\ num_tokens = count_messages_tokens(tk_messages)
        /\ (tk_messages = <<>> => num_tokens = 3)

C1_Witness ==
    /\ tk_pc = "counted"
    /\ Len(tk_messages) = 2
    /\ NamePresent(tk_messages[1])
    /\ "debug_info" \in DOMAIN tk_messages[2]
    /\ "debug_info" \notin DOMAIN tk_messages[1]
    /\ num_tokens = 13

\* C2: should_summarize(messages) is true iff the token count is strictly
\* greater than the manager's current threshold; equal to the threshold is
\* false, also for a threshold set after construction.
C2_StrictThreshold ==
    tk_pc = "checked" =>
        /\ tk_should = (TokenFormula(tk_messages) > threshold)
        /\ (TokenFormula(tk_messages) = threshold => ~tk_should)

C2_Witness ==
    /\ tk_pc = "checked"
    /\ TokenFormula(tk_messages) = threshold
    /\ ~tk_should

----------------------------------------------------------------------------
(* C3 *)

RangeOf(i) == mm_returned[i].message_range_summarized

FirstStart == IF mm_first = None THEN 0
              ELSE mm_first[1].message_range_summarized.end_index

\* C3: with no previous summary the range is [0, len(messages)); with one it
\* is [prev.end_index, prev.end_index + len(messages)).  Over a chain fed
\* sequential buffers every range starts where the previous one ended, has
\* end_index >= start_index, and the ranges neither overlap nor leave a gap.
C3_RangeChaining ==
    \A i \in DOMAIN mm_returned :
        /\ RangeOf(i).start_index = (IF i = 1 THEN FirstStart ELSE RangeOf(i - 1).end_index)
        /\ RangeOf(i).end_index = RangeOf(i).start_index + Len(mm_fed[i])
        /\ RangeOf(i).end_index >= RangeOf(i).start_index
        /\ RangeOf(i).end_index
             = FirstStart + SumSeq([k \in 1..i |-> Len(mm_fed[k])])
        /\ \A k \in DOMAIN mm_returned :
             k < i => RangeOf(k).end_index <= RangeOf(i).start_index

C3_Witness ==
    /\ Len(mm_returned) = 3
    /\ mm_first = None
    /\ RangeOf(1) = MessageRange(0, 2)
    /\ RangeOf(2) = MessageRange(2, 3)
    /\ RangeOf(3) = MessageRange(3, 5)

----------------------------------------------------------------------------
(* C7, C8 *)

Contains(text, atom) == \E i \in DOMAIN text : text[i] = atom

HasConstraintsBlock(prompt) == Contains(prompt, "CONSTRAINTS (Must Follow):")
HasPreferencesBlock(prompt) == Contains(prompt, "PREFERENCES:")
HasKeyFactsBlock(prompt) == Contains(prompt, "=== KEY FACTS ===")

\* C7: memory injection omits empty sections: a summary with empty prefs,
\* constraints and key_facts yields exactly the base prompt; a profile with
\* only constraints yields the constraints block and no preferences block;
\* the KEY FACTS block appears iff key_facts is non-empty.
C7_EmptySectionsOmitted ==
    (gen_pc = "built" /\ gen_memory # None) =>
        LET m == gen_memory[1]
            prompt == gen_prompt[1]
        IN /\ (m.user_profile.prefs = <<>> /\ m.user_profile.constraints = <<>>
                 /\ m.key_facts = <<>>)
              => (prompt = base_prompt /\ prompt = build_system_prompt(None))
           /\ (m.user_profile.prefs = <<>> /\ m.user_profile.constraints # <<>>)
              => (HasConstraintsBlock(prompt) /\ ~HasPreferencesBlock(prompt))
           /\ HasKeyFactsBlock(prompt) <=> (m.key_facts # <<>>)

\* The parts of C7 the code satisfies: block presence follows the lists.
C7_BlocksFollowLists ==
    gen_pc = "built" =>
        LET prompt == gen_prompt[1]
        IN IF gen_memory = None THEN prompt = base_prompt
           ELSE LET m == gen_memory[1]
                IN /\ HasConstraintsBlock(prompt) <=> (m.user_profile.constraints # <<>>)
                   /\ HasPreferencesBlock(prompt) <=> (m.user_profile.prefs # <<>>)
                   /\ HasKeyFactsBlock(prompt) <=> (m.key_facts # <<>>)

AllowedKeys == {"role", "content", "name"}

\* C8: the payload is one system message, each context message in order
\* reduced to role / content / name, then one user message carrying
\* user_query; no payload message has another key, and the caller's context
\* messages are not modified by the call.
C8_DebugInfoStripped ==
    [][gen_pc' \in {"sent", "error"} /\ gen_pc \notin {"sent", "error"} =>
        /\ gen_context' = gen_context
        /\ Len(gen_payload') = Len(gen_context) + 2
        /\ gen_payload'[1] = [role |-> "system",
                               content |-> build_system_prompt(gen_memory)]
        /\ \A i \in DOMAIN gen_context :
             /\ DOMAIN gen_payload'[i + 1] = DOMAIN gen_context[i] \cap AllowedKeys
             /\ \A k \in DOMAIN gen_payload'[i + 1] :
                  gen_payload'[i + 1][k] = gen_context[i][k]
        /\ gen_payload'[Len(gen_payload')] = [role |-> "user", content |-> gen_query]
        /\ \A i \in DOMAIN gen_payload' : DOMAIN gen_payload'[i] \subseteq AllowedKeys
    ]_vars

C8_Witness ==
    /\ gen_pc = "sent"
    /\ Len(gen_context) = 2
    /\ "debug_info" \in DOMAIN gen_context[1]
    /\ "name" \in DOMAIN gen_context[2]
    /\ "debug_info" \in DOMAIN gen_context[2]
    /\ DOMAIN gen_payload[2] = {"role", "content"}
    /\ DOMAIN gen_payload[3] = {"role", "content", "name"}

----------------------------------------------------------------------------
(* C9, C10 *)

LastSaved == st_saved[Len(st_saved)]

\* C9: a summary saved with save_json and loaded back with load_json from
\* the same path is equal in all fields, non-ASCII text included; after a
\* later save to the same path the load yields the later value only.
C9_RoundTrip ==
    (st_pc = "loaded" /\ st_intact) =>
        /\ ~st_loaded.raised
        /\ st_loaded.data.j = "obj"
        /\ st_loaded.data = model_dump(LastSaved)
        /\ summary_from_data(st_loaded.data) = Some(LastSaved)

C9_Witness ==
    /\ st_pc = "loaded"
    /\ st_intact
    /\ Len(st_saved) = 2
    /\ st_saved[1] # st_saved[2]
    /\ summary_from_data(st_loaded.data) = Some(st_saved[2])
    /\ st_saved[2].key_facts = <<T_Viet, T_Quote>>

\* C10: load_json returns the no-value result and never raises when the file
\* is missing or its content is not valid JSON.
C10_LoadNeverRaises ==
    st_pc = "loaded" =>
        /\ ~st_loaded.raised
        /\ (fs_file = None \/ ~st_intact) => st_loaded.data.j = "null"

----------------------------------------------------------------------------
(* C4, C5, C6: the interactive turn *)

\* The run of this step handled a prompt and got an analysis back
TurnAnalysed(r) == r.prompt # None /\ r.analysis # None

\* C4: a turn whose analysis is ambiguous with a non-empty list of options
\* makes no Chat Generator call, sets pending_options to exactly those
\* options, and appends exactly two messages to the history: the prompt with
\* the analysis as debug_info, then the clarifying question, or "Please
\* clarify." when the analysis has none.
C4_AmbiguityBlocksGeneration ==
    [][LET r == ui_last'
       IN (TurnAnalysed(r) /\ r.analysis[1].is_ambiguous
           /\ r.analysis[1].clarification_options # <<>>)
          => LET a == r.analysis[1]
                 question == IF a.clarifying_question # None
                             THEN a.clarifying_question[1]
                             ELSE PleaseClarify
             IN /\ r.gen_calls = 0
                /\ pending_options' = a.clarification_options
                /\ messages' = messages \o
                       <<[role |-> "user", content |-> r.prompt[1], debug_info |-> a],
                         [role |-> "assistant", content |-> question]>>]_vars

C4_Witness ==
    /\ TurnAnalysed(ui_last)
    /\ ui_last.analysis[1].is_ambiguous
    /\ ui_last.analysis[1].clarifying_question = None
    /\ pending_options = <<T_River, T_Money>>
    /\ Len(messages) = 4
    /\ messages[4] = [role |-> "assistant", content |-> PleaseClarify]
    /\ ui_last.gen_calls = 0

\* C5: a turn that is not blocked by clarification options calls the Chat
\* Generator exactly once, with the rewritten_query when is_ambiguous is true
\* and a rewritten_query is present, and with the original prompt otherwise.
C5_EffectiveQuery ==
    LET r == ui_last
    IN (TurnAnalysed(r)
        /\ ~(r.analysis[1].is_ambiguous /\ r.analysis[1].clarification_options # <<>>))
       => LET a == r.analysis[1]
          IN /\ r.gen_calls = 1
             /\ r.gen_query = Some(IF a.is_ambiguous /\ a.rewritten_query # None
                                   THEN a.rewritten_query[1]
                                   ELSE r.prompt[1])

C5_Witness ==
    /\ TurnAnalysed(ui_last)
    /\ ui_last.analysis[1].is_ambiguous
    /\ ui_last.analysis[1].clarification_options = <<>>
    /\ ui_last.prompt = Some(T_It)
    /\ ui_last.gen_calls = 1
    /\ ui_last.gen_query = Some(T_Docker)
    /\ ui_last.error = "none"

\* C6: in every turn that is not blocked and whose analysis carries a
\* rewritten_query, also one with is_ambiguous = false, the Chat Generator
\* receives the rewritten query and not the raw prompt.
C6_RewrittenQueryReachesGenerator ==
    LET r == ui_last
    IN (TurnAnalysed(r)
        /\ ~(r.analysis[1].is_ambiguous /\ r.analysis[1].clarification_options # <<>>)
        /\ r.analysis[1].rewritten_query # None)
       => r.gen_query = r.analysis[1].rewritten_query

----------------------------------------------------------------------------
(* C11: the Query Pipeline keeps no state *)

\* C11: analyze_query returns exactly what the LLM boundary returned for that
\* call (and raises exactly when the boundary raises), whatever the earlier
\* calls returned, and the call changes neither the pipeline object nor
\* recent_messages nor session_memory.
C11_AnalyzeQueryStateless ==
    [][/\ pq_self' = pq_self
       /\ pq_recent' = pq_recent
       /\ pq_memory' = pq_memory
       /\ pq_last' # None =>
            /\ pq_last'[1].raised = (pq_last'[1].llm = None)
            /\ pq_last'[1].value = pq_last'[1].llm]_vars

\* Two consecutive calls: the first extracted a fact, the second extracted
\* none and returned none
C11_Witness ==
    /\ pq_prev # None /\ pq_last # None
    /\ pq_prev[1].value # None /\ pq_last[1].value # None
    /\ pq_prev[1].value[1].new_user_facts = <<T_Huy>>
    /\ pq_last[1].llm[1].new_user_facts = <<>>
    /\ pq_last[1].value[1].new_user_facts = <<>>
    /\ pq_prev[1].query # pq_last[1].query
    /\ pq_memory # None
    /\ pq_recent # <<>>

----------------------------------------------------------------------------
(* C12: the consolidation cursor *)

\* C12: every consolidation is handed exactly messages[last_summary_index:]
\* and, when the summary is produced, sets last_summary_index to
\* len(messages); the buffers consolidated since the last reset or scenario
\* load, one after the other, are messages[0:last_summary_index].
C12_CursorSlices ==
    /\ [](ui_pc # "off" =>
            Flatten(summarized) = SubSeq(messages, 1, last_summary_index))
    /\ [][ui_last'.buffer # None =>
            /\ ui_last'.buffer[1] = From(messages, last_summary_index)
            /\ messages' = messages
            /\ ui_last'.error # "consolidation" =>
                 last_summary_index' = Len(messages')]_vars

\* Two consolidations in one session, the second over a buffer that starts
\* after the first
C12_Witness ==
    /\ Len(summarized) = 2
    /\ summarized[1] # <<>> /\ summarized[2] # <<>>
    /\ Len(summarized[1]) < Len(messages)
    /\ last_summary_index = Len(messages)
    /\ ui_last.consolidated

----------------------------------------------------------------------------
(* C13: a failed consolidation changes nothing *)

\* C13: when the LLM call of summarize_messages fails, the interactive session
\* keeps session_summary, last_summary_index, the history and the memory file
\* as they were, and run-log keeps the previous summary and the buffer of
\* processed messages it handed to the call.
C13_FailedConsolidationKeepsState ==
    [][/\ ui_last'.error = "consolidation" =>
            /\ ui_last'.buffer # None
            /\ session_summary' = session_summary
            /\ last_summary_index' = last_summary_index
            /\ messages' = messages
            /\ fs_file' = fs_file
       /\ log_pc' = "failed_consolidation" /\ log_pc = "running" =>
            /\ log_memory' = log_memory
            /\ log_i' = log_i
            /\ processed_messages' = Append(processed_messages, log_messages[log_i + 1])]_vars

\* The interactive session after a failed consolidation over a non-empty
\* buffer, with an earlier summary and its file in place
C13_Witness ==
    /\ ui_last.error = "consolidation"
    /\ ui_last.buffer # None /\ ui_last.buffer[1] # <<>>
    /\ session_summary # None
    /\ last_summary_index > 0
    /\ last_summary_index < Len(messages)
    /\ fs_file # None

\* run-log stopped by a failed consolidation that had an earlier summary
C13_WitnessRunLog ==
    /\ log_pc = "failed_consolidation"
    /\ log_memory # None
    /\ processed_messages # <<>>

----------------------------------------------------------------------------
(* C14: what a failed turn leaves behind *)

\* C14: when the Query Pipeline call or the Chat Generator call of a turn
\* fails, the history, the session memory and the pending options are what
\* they were before the turn.
C14_FailedTurnCommitsNothing ==
    [][ui_last'.error \in {"analysis", "generation"} =>
            /\ messages' = messages
            /\ session_summary' = session_summary
            /\ pending_options' = pending_options]_vars

\* The part that holds: a turn whose analysis fails leaves the history and
\* the session memory as they were.
C14_FailedAnalysisKeepsHistory ==
    [][ui_last'.error = "analysis" =>
            /\ messages' = messages
            /\ session_summary' = session_summary]_vars

\* What a failed generation leaves: the user message is in the history and
\* the fast-path facts are in the memory.
C14_FailedGenerationLeaves ==
    [][ui_last'.error = "generation" =>
            /\ messages' = Append(messages,
                                  [role |-> "user", content |-> ui_last'.prompt[1],
                                   debug_info |-> ui_last'.analysis[1]])
            /\ session_summary' = FastPath(session_summary, ui_last'.analysis[1])
            /\ pending_options' = <<>>]_vars

----------------------------------------------------------------------------
(* C15: pending options and the Chat Generator *)

\* C15: while pending_options is non-empty, a script run calls the Chat
\* Generator only for a prompt that is one of the pending options.
C15_PendingOptionsGateGeneration ==
    [][pending_options # <<>> /\ ui_last'.gen_calls > 0 =>
            \E i \in DOMAIN pending_options :
                ui_last'.prompt = Some(pending_options[i])]_vars

\* The part that holds: a run without a prompt makes no Chat Generator call
\* and leaves the pending options in place.
C15_NoPromptNoGeneration ==
    [][ui_last'.prompt = None /\ ui_pc \in {"idle", "rerun"} /\ ui_inited
       /\ ui_pc' # "rerun" =>
            /\ ui_last'.gen_calls = 0
            /\ pending_options' = pending_options]_vars

----------------------------------------------------------------------------
(* C16: a fixture that cannot be read *)

\* C16: when the fixture of a scenario cannot be read (missing, unreadable or
\* not valid JSON), the click reports the error and leaves messages,
\* session_summary, last_summary_index, pending_options and test_prompt as
\* they were.
C16_FixtureFailureKeepsSession ==
    [][ui_last'.error = "fixture" =>
            /\ messages' = messages
            /\ session_summary' = session_summary
            /\ last_summary_index' = last_summary_index
            /\ pending_options' = pending_options
            /\ test_prompt' = test_prompt]_vars

\* A failed scenario load in a session that has a history, a summary, a
\* moved cursor and pending options
C16_Witness ==
    /\ ui_last.error = "fixture"
    /\ messages # <<>>
    /\ session_summary # None
    /\ last_summary_index > 0
    /\ pending_options # <<>>

----------------------------------------------------------------------------
(* C17: Reset Brain *)

\* C17: the script run that follows Reset Brain re-initialises the session
\* with an empty history, no summary, last_summary_index 0, no pending
\* options and no queued test prompt, and the memory file does not exist.
C17_ResetReinitialisesEmpty ==
    [][ui_pc = "rerun" /\ ~ui_inited =>
            /\ ui_inited' /\ ui_last'.inited_now
            /\ messages' = <<>>
            /\ session_summary' = None
            /\ last_summary_index' = 0
            /\ pending_options' = <<>>
            /\ test_prompt' = None
            /\ fs_file' = None]_vars

\* A session re-initialised after a reset: the slider had been moved, so an
\* earlier session existed, and it started from a memory file
C17_Witness ==
    /\ ui_inited /\ ui_last.inited_now
    /\ threshold # MEMORY_THRESHOLD_TOKENS
    /\ messages = <<>> /\ session_summary = None /\ fs_file = None

----------------------------------------------------------------------------
(* C18: the buffer usage fraction *)

\* C18: the usage fraction is used/threshold when the threshold is positive
\* and used is below it, exactly 1 when used >= threshold or the threshold
\* is 0, and always lies in [0, 1].
C18_UsageFraction ==
    tk_pct # None =>
        LET u == tk_pct[1].used
            t == tk_pct[1].threshold
            v == tk_pct[1].value
        IN /\ v.den > 0
           /\ 0 <= v.num /\ v.num <= v.den
           /\ t = 0 => v = FracOne
           /\ u >= t => v = FracOne
           /\ t > 0 /\ u < t => v.num * t = u * v.den

\* The fraction was computed below the threshold, at it, above it and for a
\* threshold of 0: here above a positive threshold
C18_Witness ==
    /\ tk_pct # None
    /\ tk_pct[1].threshold > 0
    /\ tk_pct[1].used > tk_pct[1].threshold
    /\ tk_pct[1].value = FracOne

C18_WitnessBelow ==
    /\ tk_pct # None
    /\ tk_pct[1].used < tk_pct[1].threshold
    /\ tk_pct[1].value.num < tk_pct[1].value.den

C18_WitnessZero ==
    /\ tk_pct # None
    /\ tk_pct[1].threshold = 0
    /\ tk_pct[1].value = FracOne

----------------------------------------------------------------------------
(* C19: the fast-path memory update *)

\* The summary the claim describes after one extraction: absent or unchanged
\* when nothing was extracted, otherwise the old summary (an empty one with
\* range [0, 0) when there was none) with the facts appended to key_facts and
\* the preferences appended to the constraints
AppendOnly(old, a) ==
    IF a.new_user_facts = <<>> /\ a.new_user_preferences = <<>> THEN old
    ELSE LET base == IF old = None
                     THEN [user_profile |-> [prefs |-> <<>>, constraints |-> <<>>],
                           key_facts |-> <<>>, decisions |-> <<>>,
                           open_questions |-> <<>>, todos |-> <<>>,
                           message_range_summarized |->
                               [start_index |-> 0, end_index |-> 0]]
                     ELSE old[1]
         IN Some([user_profile |->
                      [prefs |-> base.user_profile.prefs,
                       constraints |-> base.user_profile.constraints
                                       \o a.new_user_preferences],
                  key_facts |-> base.key_facts \o a.new_user_facts,
                  decisions |-> base.decisions,
                  open_questions |-> base.open_questions,
                  todos |-> base.todos,
                  message_range_summarized |-> base.message_range_summarized])

RECURSIVE AppendOnlyAll(_, _)
AppendOnlyAll(old, analyses) ==
    IF analyses = <<>> THEN old
    ELSE AppendOnlyAll(AppendOnly(old, Head(analyses)), Tail(analyses))

\* C19: the memory after an analysed turn is the memory before it with the
\* extracted facts appended to key_facts and the extracted preferences
\* appended to the constraints, everything else unchanged (an empty summary
\* with range [0, 0) is created first when there was none, and nothing
\* changes when nothing was extracted); the memory after a scenario's
\* hydration is the same update applied once per analysed message, starting
\* from no summary.
C19_FastPathAppendOnly ==
    [][/\ TurnAnalysed(ui_last') =>
            session_summary' = AppendOnly(session_summary, ui_last'.analysis[1])
       /\ ui_last'.hydrated # <<>> =>
            session_summary' = AppendOnlyAll(None, ui_last'.hydrated)]_vars

\* A turn that extracted a fact into a summary that already had one
C19_Witness ==
    /\ TurnAnalysed(ui_last)
    /\ ui_last.analysis[1].new_user_facts # <<>>
    /\ session_summary # None
    /\ Len(session_summary[1].key_facts) >= 2
    /\ session_summary[1].message_range_summarized.end_index > 0

\* A hydration that created the summary
C19_WitnessHydration ==
    /\ ui_last.hydrated # <<>>
    /\ session_summary # None
    /\ session_summary[1].key_facts = <<T_Huy>>
    /\ session_summary[1].message_range_summarized = MessageRange(0, 0)

\* A turn that extracted nothing and left no summary
C19_WitnessNothingExtracted ==
    /\ TurnAnalysed(ui_last)
    /\ ui_last.analysis[1].new_user_facts = <<>>
    /\ ui_last.analysis[1].new_user_preferences = <<>>
    /\ session_summary = None

----------------------------------------------------------------------------
(* C20: the summarised range and the cursor *)

\* C20: whenever the session has a summary, the end_index of its
\* message_range_summarized equals last_summary_index.
C20_RangeEndIsCursor ==
    session_summary # None =>
        session_summary[1].message_range_summarized.end_index = last_summary_index

\* The part that holds: in a session that did not start from a memory file,
\* the two agree after every consolidation.
C20_RangeEndIsCursorAfterConsolidation ==
    [][ui_last'.consolidated /\ (session_summary = None \/ C20_RangeEndIsCursor) =>
            C20_RangeEndIsCursor']_vars

----------------------------------------------------------------------------
(* C21: the query of the turn in the generation payload *)

\* C21: in every turn that calls the Chat Generator, the context window has
\* at most 5 messages, none of them is the user message of the turn, and the
\* payload holds the user's prompt in exactly one user message.
C21_QueryOnceInPayload ==
    LET r == ui_last
    IN r.gen_calls > 0 =>
        LET payload == generate_response_messages(r.gen_query[1], r.gen_context,
                                                  session_summary)
            turn_msg == [role |-> "user", content |-> r.prompt[1],
                         debug_info |-> r.analysis[1]]
        IN /\ Len(r.gen_context) <= 5
           /\ \A i \in DOMAIN r.gen_context : r.gen_context[i] # turn_msg
           /\ Cardinality({i \in DOMAIN payload :
                             /\ payload[i].role = "user"
                             /\ payload[i].content = r.prompt[1]}) = 1

\* The part that holds: the context window is the last 5 messages of the
\* history at most, and the payload ends with the effective query.
C21_ContextWindowBounded ==
    LET r == ui_last
    IN r.gen_calls > 0 =>
        LET payload == generate_response_messages(r.gen_query[1], r.gen_context,
                                                  session_summary)
        IN /\ Len(r.gen_context) <= 5
           /\ Len(payload) = Len(r.gen_context) + 2
           /\ payload[Len(payload)] = [role |-> "user", content |-> r.gen_query[1]]

\* What the code does: the last message of the context window is the user
\* message of the turn, appended to the history before the call.
C21_ContextEndsWithTurnMessage ==
    LET r == ui_last
    IN r.gen_calls > 0 =>
        /\ r.gen_context # <<>>
        /\ r.gen_context[Len(r.gen_context)] =
             [role |-> "user", content |-> r.prompt[1], debug_info |-> r.analysis[1]]

----------------------------------------------------------------------------
(* C22: who writes the memory file *)

C22_WitnessFastPath ==
    /\ TurnAnalysed(ui_last)
    /\ ui_last.analysis[1].new_user_facts # <<>>
    /\ fs_file = FileValid
    /\ session_summary # Some(StoredSummary)

----------------------------------------------------------------------------
(* C23: consolidation replaces the summary *)

ContentFields == {"user_profile", "key_facts", "decisions", "open_questions", "todos"}

\* C23: the summary summarize_messages returns has exactly the content fields
\* the LLM returned plus the computed range; the request carries the previous
\* summary's user_profile (the text "None" without a previous summary) and
\* the whole buffer and nothing else of the previous summary; the previous
\* summary is as it was before the call.
C23_FullReplacement ==
    \A i \in DOMAIN mm_calls :
        LET c == mm_calls[i]
            start == IF c.before = None THEN 0
                     ELSE c.before[1].message_range_summarized.end_index
        IN /\ DOMAIN c.call.returned = ContentFields \cup {"message_range_summarized"}
           /\ \A f \in ContentFields : c.call.returned[f] = c.ai_content[f]
           /\ c.call.returned.message_range_summarized =
                [start_index |-> start, end_index |-> start + Len(c.buffer)]
           /\ DOMAIN c.call.request = {"current_profile_context", "recent_messages"}
           /\ c.call.request.recent_messages = c.buffer
           /\ c.call.request.current_profile_context =
                (IF c.before = None THEN [text |-> "None"]
                 ELSE [model_dump_json |-> c.before[1].user_profile])
           /\ c.call.previous_summary = c.before

\* A call with a previous summary that has key facts and a todo, whose LLM
\* content has none: the returned summary has none
C23_Witness ==
    \E i \in DOMAIN mm_calls :
        LET c == mm_calls[i]
        IN /\ c.before # None
           /\ c.before[1].key_facts # <<>>
           /\ c.before[1].todos # <<>>
           /\ c.ai_content.key_facts = <<>>
           /\ c.call.returned.key_facts = <<>>
           /\ c.call.returned.todos = <<>>
           /\ c.buffer # <<>>

----------------------------------------------------------------------------
(* C24: the bookkeeping of run-log *)

\* C24: in run-log, after the i-th message has been processed, the end_index
\* of the current summary (0 without one) plus the length of the buffer is i;
\* each iteration appends its message to the buffer once and runs the
\* threshold check on the buffer with it; a triggered consolidation gets the
\* whole buffer and the previous summary and empties the buffer; the Query
\* Pipeline is called for user messages only, with at most the last 5
\* messages of the buffer.
C24_RunLogBookkeeping ==
    /\ [](log_pc \in {"running", "done"} =>
            (IF log_memory = None THEN 0
             ELSE log_memory[1].message_range_summarized.end_index)
            + Len(processed_messages) = log_i)
    /\ [][log_pc = "running" /\ log_pc' # "failed_analysis" =>
            LET msg == log_messages[log_i + 1]
                r == log_last'
            IN /\ r.analysed = (msg.role = "user")
               /\ r.analysed =>
                    /\ Len(r.window) <= 5
                    /\ Len(r.window) = IF Len(processed_messages) < 5
                                       THEN Len(processed_messages) ELSE 5
                    /\ \A k \in 1..Len(r.window) :
                         r.window[k] = processed_messages[Len(processed_messages)
                                                          - Len(r.window) + k]
               /\ r.checked = Some(Append(processed_messages, msg))
               /\ IF r.consolidated = None
                  THEN /\ processed_messages' = Append(processed_messages, msg)
                       /\ log_memory' = log_memory
                  ELSE /\ r.consolidated[1].buffer = Append(processed_messages, msg)
                       /\ r.consolidated[1].previous = log_memory
                       /\ log_pc' # "failed_consolidation" =>
                            /\ processed_messages' = <<>>
                            /\ log_memory' # None]_vars

\* The log replayed to its end with two consolidations behind it and a
\* message in the buffer
C24_Witness ==
    /\ log_pc = "done"
    /\ log_i = Len(log_messages)
    /\ log_memory # None
    /\ log_memory[1].message_range_summarized.start_index > 0
    /\ processed_messages # <<>>

\* A user message analysed with a window of 5 messages out of a longer buffer
C24_WitnessWindow ==
    /\ log_last.analysed
    /\ Len(log_last.window) = 5
    /\ Len(processed_messages) > 6

----------------------------------------------------------------------------
(* C25: scenario routing *)

\* C25: after a successful scenario load the consolidation index is 0, there
\* are no pending options and the summary is absent (or what the hydration of
\* context.json built from nothing); for long_session.json the fixture is the
\* history and no prompt is queued; for another fixture whose last entry is
\* from the user the history is the fixture without its last entry and the
\* queued prompt is that entry's content; for any other fixture the fixture is
\* the history and no prompt is queued.
C25_ScenarioRouting ==
    [][ui_last'.scenario # None /\ ui_last'.error = "none" =>
            LET filename == ui_last'.scenario[1].filename
                d == ui_last'.scenario[1].data
            IN /\ last_summary_index' = 0
               /\ pending_options' = <<>>
               /\ session_summary' = AppendOnlyAll(None, ui_last'.hydrated)
               /\ filename # "context.json" => session_summary' = None
               /\ IF filename = "long_session.json"
                  THEN messages' = d /\ test_prompt' = None
                  ELSE IF d # <<>> /\ d[Len(d)].role = "user"
                  THEN /\ messages' = SubSeq(d, 1, Len(d) - 1)
                       /\ test_prompt' = Some(d[Len(d)].content)
                  ELSE messages' = d /\ test_prompt' = None]_vars

\* A fixture ending with a user message loaded by the Ambiguity button: the
\* history is the rest and the prompt is queued
C25_Witness ==
    /\ ui_last.scenario # None /\ ui_last.error = "none"
    /\ ui_last.scenario[1].filename = "ambiguous.json"
    /\ Len(ui_last.scenario[1].data) = 3
    /\ Len(messages) = 2
    /\ test_prompt = Some(T_It)

\* The same fixture loaded by the Memory button: history verbatim, no prompt
C25_WitnessLong ==
    /\ ui_last.scenario # None /\ ui_last.error = "none"
    /\ ui_last.scenario[1].filename = "long_session.json"
    /\ Len(messages) = 3 /\ messages[3].role = "user"
    /\ test_prompt = None

\* A fixture ending with an assistant message, and an empty one, loaded by
\* the Context button: history verbatim, no prompt
C25_WitnessVerbatim ==
    /\ ui_last.scenario # None /\ ui_last.error = "none"
    /\ ui_last.scenario[1].filename = "context.json"
    /\ Len(messages) = 4 /\ messages[4].role = "assistant"
    /\ test_prompt = None

C25_WitnessEmpty ==
    /\ ui_last.scenario # None /\ ui_last.error = "none"
    /\ ui_last.scenario[1].data = <<>>
    /\ messages = <<>> /\ test_prompt = None /\ ui_pc = "rerun"

----------------------------------------------------------------------------
(* C26: where an LLM error goes *)

\* C26: an LLM failure in the interactive application (the analysis or the
\* generation of a turn, the analysis of a hydrated message) stops the script
\* run it happens in, and an LLM failure in run-log stops the command: no
\* caller catches it and goes on.
C26_LlmErrorStopsOperation ==
    [][/\ ui_last'.error \in {"analysis", "generation", "hydration"} =>
            ui_pc' = "idle"
       /\ log_pc \in {"failed_analysis", "failed_consolidation"} =>
            UNCHANGED logVars]_vars

\* The part that holds: a failed analysis or generation of a turn stops the
\* script run before st.rerun(), and run-log stops at a failed analysis or
\* consolidation without processing further messages.
C26_TurnAndRunLogErrorsStop ==
    [][/\ ui_last'.error \in {"analysis", "generation"} => ui_pc' = "idle"
       /\ log_pc \in {"failed_analysis", "failed_consolidation"} => UNCHANGED logVars]_vars

\* What the code does with a hydration failure: load_test_scenario catches
\* it, and the button handler goes on to st.rerun().
C26_HydrationErrorIsCaught ==
    [][ui_last'.error = "hydration" => ui_pc' = "rerun"]_vars

----------------------------------------------------------------------------
(* C27: consolidation settles *)

SliderMax == 2000

\* C27: after a successful consolidation the active buffer is empty and the
\* threshold check on the empty buffer is false for every slider value and
\* for run-log's threshold; a consolidation is only ever triggered on a
\* non-empty buffer; the rerun that follows a consolidation can run, makes no
\* summarisation call and ends waiting for input.
C27_ConsolidationSettles ==
    /\ [](/\ \A t \in {SliderMin, MEMORY_THRESHOLD_TOKENS, SliderMax, RunLogThreshold} :
               ~should_summarize(<<>>, t)
          /\ ui_last.consolidated =>
               /\ active_buffer(Session) = <<>>
               /\ ~should_summarize(active_buffer(Session), threshold)
               /\ ui_pc = "rerun"
               /\ ENABLED RunScript
          /\ (log_last.consolidated # None /\ log_pc \in {"running", "done"}) =>
               /\ processed_messages = <<>>
               /\ ~should_summarize(processed_messages, threshold))
    /\ [][/\ ui_last'.buffer # None => ui_last'.buffer[1] # <<>>
          /\ log_last'.consolidated # None => log_last'.consolidated[1].buffer # <<>>
          /\ ui_last.consolidated =>
               /\ ui_pc' = "idle"
               /\ ui_last'.buffer = None
               /\ ~ui_last'.consolidated
               /\ ui_last'.error = "none"]_vars

\* The session waiting for input after a consolidation at the lowest slider
\* value and the rerun that followed it
C27_Witness ==
    /\ ui_pc = "idle"
    /\ threshold = SliderMin
    /\ summarized # <<>>
    /\ messages # <<>>
    /\ last_summary_index = Len(messages)
    /\ ui_last.prompt = None /\ ui_last.buffer = None /\ ~ui_last.consolidated

\* run-log going on after a consolidation with an empty buffer
C27_WitnessRunLog ==
    /\ log_pc = "running"
    /\ log_last.consolidated # None
    /\ processed_messages = <<>>
    /\ log_memory # None

----------------------------------------------------------------------------
(* C28: the cursor stays inside the history *)

\* C28: in every state of the session 0 <= last_summary_index <=
\* len(messages), and the cursor is 0 while there is no session summary; in
\* every step that is neither a reset nor a scenario load the old history is
\* a prefix of the new one and the cursor does not decrease.
C28_CursorWithinHistory ==
    /\ [](/\ 0 <= last_summary_index
          /\ last_summary_index <= Len(messages)
          /\ session_summary = None => last_summary_index = 0)
    /\ [][(/\ ~(ui_inited /\ ~ui_inited')
           /\ ui_last'.scenario = None) =>
             /\ Len(messages) <= Len(messages')
             /\ SubSeq(messages', 1, Len(messages)) = messages
             /\ last_summary_index <= last_summary_index']_vars

\* A consolidated session whose history has grown past the cursor
C28_Witness ==
    /\ session_summary # None
    /\ summarized # <<>>
    /\ 0 < last_summary_index
    /\ last_summary_index < Len(messages)

\* A session with a summary from the fast path and the cursor at 0
C28_WitnessFastPath ==
    /\ session_summary # None
    /\ messages # <<>>
    /\ last_summary_index = 0
    /\ summarized = <<>>

----------------------------------------------------------------------------
(* C29: a scenario load that fails after the fixture was parsed *)

\* C29: whenever load_test_scenario reports an error, whether the fixture
\* could not be read or the Query Pipeline failed during hydration, messages,
\* session_summary, last_summary_index, pending_options and test_prompt equal
\* their values from before the load.
C29_FailedLoadKeepsSession ==
    [][ui_last'.error \in {"fixture", "hydration"} =>
            /\ messages' = messages
            /\ session_summary' = session_summary
            /\ last_summary_index' = last_summary_index
            /\ pending_options' = pending_options
            /\ test_prompt' = test_prompt]_vars

\* What the code does instead: a load whose hydration fails has reset the
\* session, installed the fixture's history and queued its last message, and
\* keeps the facts learned before the failing call.
C29_HydrationFailureLeavesPartialLoad ==
    [][ui_last'.error = "hydration" =>
            LET d == ui_last'.scenario[1].data
            IN /\ ui_last'.scenario[1].filename = "context.json"
               /\ messages' = SubSeq(d, 1, Len(d) - 1)
               /\ test_prompt' = Some(d[Len(d)].content)
               /\ last_summary_index' = 0
               /\ pending_options' = <<>>
               /\ session_summary' # None => ui_last'.hydrated # <<>>]_vars

====
